---- MODULE Spec2Model ----
(***************************************************************************)
(* A model of pdamianik/defacto: the authenticated session manager         *)
(* (src/src/client.rs), the transcript resolution pipeline and the fan-out *)
(* coordinator (src/src/defacto.rs).                                       *)
(*                                                                         *)
(* Text is modelled as a sequence of one-character strings, so that        *)
(* trimming, joining and regular-expression matching are computed as the   *)
(* code computes them.                                                     *)
(***************************************************************************)
EXTENDS Integers, Sequences, FiniteSets, TLC

VARIABLES
    \* ---- Pattern Counter (defacto.rs 19-23, 182-188) ----
    text,        \* the transcript handed to the counter
    cphase,      \* "idle" | "input" | "counted" | "padded"
    cnt,         \* counts of text, one per pattern
    padText,     \* text with whitespace/punctuation put around it
    padCnt,      \* counts of padText
    \* ---- Cue reduction (defacto.rs 311-344) ----
    capFile,     \* the caption file the captions path downloads
    rphase,      \* "idle" | "input" | "reduced" | "again"
    raw,         \* raw_transcript: the joined payload of each cue block
    reduced,     \* the reduced cue list (transcript before the join)
    reapplied,   \* the reduction applied to reduced
    cueOut,      \* what get_opencast_transcript returns
    \* ---- Fan-out Coordinator and its units (defacto.rs 144-201, 290-366) ----
    course,      \* the course page the server returns
    site,        \* link -> the recording behind it (page, caption file, media)
    dpc,         \* do_stuff: "idle" | "start" | "drain" | "done"
    links,       \* the links do_stuff dispatched, in order
    upc,         \* per handle: "config" | "captions" | "video" | "stt" | "done"
    ures,        \* per handle: what the spawned task ended with
    capTries,    \* per handle: calls of get_opencast_transcript
    recog,       \* per handle: calls of get_whisper_transcript
    capRes,      \* per handle: what the captions path gave
    drained,     \* the handles do_stuff has awaited, in order
    data,        \* the rows pushed so far
    log,         \* the errors logged by do_stuff
    ret,         \* what do_stuff returned
    outOfOrder,  \* a unit completed while an earlier one was still running
    workers,     \* the worker threads of the runtime the tasks are spawned on
    \* ---- Session Manager (client.rs 13-219) ----
    mode,        \* SessionBuilder: "New" | "Restore"
    sessFile,    \* the serialized cookie store handed to Restore
    bpc,         \* build: "idle" | "start" | "check" | "login_get" | "login_post"
                 \*        | "login_relay" | "load_key" | "ok" | "err" | "panic"
    cookie_jar,  \* the cookie store shared by the Session and its client
    session_key, \* Option<String>
    requests,    \* the requests the client has sent, in order
    checked,     \* what check() judged: "none" | "live" | "dead"
    loginEntered,\* login() has been called
    buildErr,    \* the error build returned
    calls,       \* the methods of Session entered, in order
    checkResp,   \* the response check() received
    postResp,    \* the response login() received to the credential POST
    \* ---- main (main.rs 35-182) ----
    mpc,         \* main: "idle" | "start" | "build" | "recordings" | "video"
                 \*       | "captions" | "done" | "err" | "panic"
    disk,        \* the session file .session.json
    trace,       \* the calls of persist and the requests of the pipeline, in order
    mlinks,      \* the anchors of the course page main has still to visit
    mrows,       \* the rows main has pushed
    \* ---- the mutex of the cookie store (client.rs 59, 65, 105-109) ----
    lock,        \* who holds it, or that it is free or poisoned
    ppc,         \* persist: "idle" | "call" | "writing" | "done" | "panic"
    rq,          \* per request: "new" | "reading" | "waiting" | "storing"
                 \*              | "done" | "panic"
    \* ---- Resource Locator on one recording page (defacto.rs 221-308) ----
    locPage,     \* the recording page the server returns
    locPc,       \* "idle" | "page" | "config" | "located" | "err"
    locConfig,   \* what get_video_config returned
    caption_url, \* what get_caption_url returned
    video_url,   \* what get_video_url returned
    resolveBy,   \* what get_transcript does with the two: "captions" |
                 \* "whisper" | "fail"
    \* ---- the cache directory (defacto.rs 346-366) ----
    unit_url,    \* per unit: the stream URL it downloads
    wpc,         \* per unit: "start" | "download" | "stt" | "done"
    cache_dir,   \* file name -> the bytes the file holds
    heard        \* per unit: the bytes the recognizer read

countVars == <<text, cphase, cnt, padText, padCnt>>
cueVars == <<capFile, rphase, raw, reduced, reapplied, cueOut>>
unitVars == <<upc, ures, capTries, recog, capRes, outOfOrder>>
batchVars == <<course, site, dpc, links, drained, data, log, ret, unitVars, workers>>
mainVars == <<mpc, disk, trace, mlinks, mrows>>
lockVars == <<lock, ppc, rq>>
buildVars == <<mode, sessFile, bpc, cookie_jar, session_key, requests, checked,
               loginEntered, buildErr, calls, checkResp, postResp, mainVars, lockVars>>
locVars == <<locPage, locPc, locConfig, caption_url, video_url, resolveBy>>
cacheVars == <<unit_url, wpc, cache_dir, heard>>
restVars == <<locVars, cacheVars>>
vars == <<countVars, cueVars, batchVars, buildVars, restVars>>

(***************************************************************************)
(* Bounds of the model.                                                    *)
(***************************************************************************)
MaxPieces == 4
MaxCues == 3
MaxLinks == 3

(***************************************************************************)
(* Characters and strings.                                                 *)
(***************************************************************************)
Upper == <<"A","B","C","D","E","F","G","H","I","J","K","L","M",
           "N","O","P","Q","R","S","T","U","V","W","X","Y","Z">>
Lower == <<"a","b","c","d","e","f","g","h","i","j","k","l","m",
           "n","o","p","q","r","s","t","u","v","w","x","y","z">>

UpperSet == {Upper[i] : i \in 1..26}
LowerSet == {Lower[i] : i \in 1..26}
ToLower == [c \in UpperSet |-> Lower[CHOOSE i \in 1..26 : Upper[i] = c]]

\* The characters the class [a-zA-Z] holds.
IsAsciiLetter(c) == c \in UpperSet \/ c \in LowerSet

\* A letter of the transcript's language: ASCII letters and German umlauts.
\* Of the latter the model's alphabet holds one.
IsLetter(c) == IsAsciiLetter(c) \/ c = "ö"

\* \s of the regex crate, and the characters str::trim removes.
IsWhitespace(c) == c \in {" ", "\t", "\n"}

\* Simple case folding, as RegexBuilder::case_insensitive(true) compares.
Fold(c) == IF c \in UpperSet THEN ToLower[c] ELSE c

Max(S) == CHOOSE x \in S : \A y \in S : y <= x
Min(S) == CHOOSE x \in S : \A y \in S : x <= y

RECURSIVE Flatten(_)
Flatten(ss) == IF ss = <<>> THEN <<>> ELSE Head(ss) \o Flatten(Tail(ss))

(***************************************************************************)
(* PATTERNS: the three regular expressions, as sequences of elements.      *)
(*   notaz  [^a-zA-Z]        lit  one character, compared case-folded      *)
(*   ws+    \s+ (greedy)                                                   *)
(***************************************************************************)
NotAZ == [k |-> "notaz", c |-> ""]
WsPlus == [k |-> "ws+", c |-> ""]
Lit(s) == [i \in 1..Len(s) |-> [k |-> "lit", c |-> s[i]]]

W_de == <<"d","e">>
W_facto == <<"f","a","c","t","o">>
W_trivial == <<"t","r","i","v","i","a","l">>
W_ergibt == <<"e","r","g","i","b","t">>
W_das == <<"d","a","s">>
W_sinn == <<"s","i","n","n">>

\* The phrase of each pattern, without the two boundary classes.
PhraseRe == <<
    Lit(W_de) \o <<WsPlus>> \o Lit(W_facto),
    Lit(W_trivial),
    Lit(W_ergibt) \o <<WsPlus>> \o Lit(W_das) \o <<WsPlus>> \o Lit(W_sinn) >>

PATTERNS == [p \in 1..3 |-> <<NotAZ>> \o PhraseRe[p] \o <<NotAZ>>]

\* The number of whitespace characters of s from position i on.
RECURSIVE WsRun(_, _)
WsRun(s, i) == IF i <= Len(s) /\ IsWhitespace(s[i]) THEN 1 + WsRun(s, i + 1) ELSE 0

\* Regex match of re[k..] against s at position i: the position after the
\* match, or 0 when there is none.
RECURSIVE match_at(_, _, _, _)
match_at(re, k, s, i) ==
    IF k > Len(re) THEN i
    ELSE IF i > Len(s) THEN 0
    ELSE CASE re[k].k = "lit" ->
                IF Fold(s[i]) = Fold(re[k].c) THEN match_at(re, k + 1, s, i + 1) ELSE 0
           [] re[k].k = "notaz" ->
                IF ~IsAsciiLetter(s[i]) THEN match_at(re, k + 1, s, i + 1) ELSE 0
           [] re[k].k = "ws+" ->
                LET ok == {j \in 1..WsRun(s, i) : match_at(re, k + 1, s, i + j) # 0}
                IN  IF ok = {} THEN 0 ELSE match_at(re, k + 1, s, i + Max(ok))

\* Regex::find_iter(..).count(): leftmost, non-overlapping matches; the next
\* search starts where the last match ended.
RECURSIVE find_iter_count(_, _, _)
find_iter_count(re, s, from) ==
    LET starts == {i \in from..Len(s) : match_at(re, 1, s, i) # 0}
    IN  IF starts = {} THEN 0
        ELSE 1 + find_iter_count(re, s, match_at(re, 1, s, Min(starts)))

\* get_data's counting loop: one count per pattern, in the order of PATTERNS.
count_patterns(t) == [p \in 1..3 |-> find_iter_count(PATTERNS[p], t, 1)]

(***************************************************************************)
(* Results: anyhow::Result<String>, and a panic of the running task.       *)
(***************************************************************************)
Ok(t) == [tag |-> "Ok", text |-> t, err |-> ""]
Err(e) == [tag |-> "Err", text |-> <<>>, err |-> e]
Panic(e) == [tag |-> "Panic", text |-> <<>>, err |-> e]
NoResult == [tag |-> "None", text |-> <<>>, err |-> ""]

(***************************************************************************)
(* The captions path: get_opencast_transcript.                             *)
(***************************************************************************)
\* str::trim
RECURSIVE TrimStart(_)
TrimStart(s) == IF s # <<>> /\ IsWhitespace(Head(s)) THEN TrimStart(Tail(s)) ELSE s
RECURSIVE TrimEnd(_)
TrimEnd(s) == IF s # <<>> /\ IsWhitespace(s[Len(s)])
              THEN TrimEnd(SubSeq(s, 1, Len(s) - 1)) ELSE s
Trim(s) == TrimEnd(TrimStart(s))

\* [String]::join(" ")
RECURSIVE JoinSp(_)
JoinSp(ss) == IF ss = <<>> THEN <<>>
              ELSE IF Len(ss) = 1 THEN ss[1]
              ELSE ss[1] \o <<" ">> \o JoinSp(Tail(ss))

\* raw_transcript: the cue blocks only, each cue's payload lines joined.
RECURSIVE cue_texts(_)
cue_texts(bs) ==
    IF bs = <<>> THEN <<>>
    ELSE IF Head(bs).kind = "Que"
         THEN <<JoinSp(Head(bs).payload)>> \o cue_texts(Tail(bs))
         ELSE cue_texts(Tail(bs))

\* The loop for block in raw_transcript: a trimmed block is pushed when it
\* differs from last_block.
RECURSIVE reduce_loop(_, _, _, _)
reduce_loop(rs, i, transcript, last_block) ==
    IF i > Len(rs) THEN transcript
    ELSE LET block == Trim(rs[i])
         IN  IF block # last_block
             THEN reduce_loop(rs, i + 1, Append(transcript, block), block)
             ELSE reduce_loop(rs, i + 1, transcript, last_block)

\* A plausible bug: every cue is pushed, repeated or not.
reduce_cues_nodedup(rs) == [i \in 1..Len(rs) |-> Trim(rs[i])]

\* The cue reduction, for a non-empty raw_transcript: the first block is
\* pushed, then the loop runs over every block, the first included.
reduce_cues(rs) == reduce_loop(rs, 1, <<Trim(rs[1])>>, Trim(rs[1]))

\* get_opencast_transcript on the caption file the server returns.
get_opencast_transcript(file) ==
    IF file.net # "ok" THEN Err("transport")
    ELSE IF ~file.parsed THEN Err("Failed to parse vtt from caption file")
    ELSE IF Len(file.blocks) = 0 THEN Err("Captions are empty")
    ELSE IF cue_texts(file.blocks) = <<>>
         THEN Panic("unwrap on None: raw_transcript.first()")
         ELSE Ok(JoinSp(reduce_cues(cue_texts(file.blocks))))

\* Caption texts and blocks the model draws from.
T_trivial == <<"D","a","s"," ","i","s","t"," ","t","r","i","v","i","a","l",".">>
T_sinn == <<"E","r","g","i","b","t"," ","d","a","s"," ","S","i","n","n","?">>
T_example == T_trivial \o <<" ">> \o T_sinn

Que(lines) == [kind |-> "Que", payload |-> lines]
StyleBlock == [kind |-> "Style", payload |-> <<>>]

CueBlocks == {
    Que(<<T_trivial>>),
    Que(<<<<" ">> \o T_trivial \o <<" ", "\n">>>>),
    Que(<<<<"D","a","s"," ","i","s","t">>, <<"t","r","i","v","i","a","l",".">>>>),
    Que(<<T_sinn>>),
    StyleBlock }

BlockSeqs(n) == UNION {[1..m -> CueBlocks] : m \in 0..n}

CaptionFiles(n) ==
    {[net |-> "fail", parsed |-> FALSE, blocks |-> <<>>],
     [net |-> "ok", parsed |-> FALSE, blocks |-> <<>>]}
    \cup {[net |-> "ok", parsed |-> TRUE, blocks |-> bs] : bs \in BlockSeqs(n)}

NoFile == [net |-> "fail", parsed |-> FALSE, blocks |-> <<>>]

(***************************************************************************)
(* The recording config and the Resource Locator (defacto.rs 203-288).     *)
(* Option<T> is a sequence of at most one element.                         *)
(***************************************************************************)
None == <<>>
Some(v) == <<v>>

\* One caption track, one container variant, one media stream of the config.
Track(format, lang, url) == [format |-> format, lang |-> lang, url |-> url]
Variant(src, w, h) == [src |-> src, w |-> w, h |-> h]
Stream(role, mp4) == [role |-> role, mp4 |-> mp4]

\* A plausible bug: the last qualifying track is taken instead of the first.
get_caption_url_last(video_config) ==
    IF ~video_config.captions.isArray THEN None
    ELSE LET cs == video_config.captions.items
             hit == {i \in 1..Len(cs) : cs[i].format = "vtt" /\ cs[i].lang = "de"}
         IN  IF hit = {} THEN None ELSE cs[Max(hit)].url

\* get_caption_url: the first track with format "vtt" and lang "de"; its url.
get_caption_url(video_config) ==
    IF ~video_config.captions.isArray THEN None
    ELSE LET cs == video_config.captions.items
             hit == {i \in 1..Len(cs) : cs[i].format = "vtt" /\ cs[i].lang = "de"}
         IN  IF hit = {} THEN None ELSE cs[Min(hit)].url

\* A plausible bug: the first usable variant is taken, whatever its area.
get_video_url_first_variant(video_config) ==
    IF ~video_config.streams.isArray THEN None
    ELSE LET ss == video_config.streams.items
             hit == {i \in 1..Len(ss) : ss[i].role = "mainAudio"}
         IN  IF hit = {} THEN None
             ELSE LET mp4 == ss[Min(hit)].mp4
                  IN  IF ~mp4.isArray THEN None
                      ELSE LET vs == mp4.items
                               usable == {i \in 1..Len(vs) :
                                   vs[i].src # None /\ vs[i].w # None /\ vs[i].h # None}
                           IN  IF usable = {} THEN None
                               ELSE vs[Min(usable)].src

\* get_video_url: the first stream with role "mainAudio"; of its mp4 variants
\* that have src, w and h, the first one of minimal w * h.
get_video_url(video_config) ==
    IF ~video_config.streams.isArray THEN None
    ELSE LET ss == video_config.streams.items
             hit == {i \in 1..Len(ss) : ss[i].role = "mainAudio"}
         IN  IF hit = {} THEN None
             ELSE LET mp4 == ss[Min(hit)].mp4
                  IN  IF ~mp4.isArray THEN None
                      ELSE LET vs == mp4.items
                               usable == {i \in 1..Len(vs) :
                                   vs[i].src # None /\ vs[i].w # None /\ vs[i].h # None}
                               size(i) == vs[i].w[1] * vs[i].h[1]
                               best == {i \in usable : \A j \in usable :
                                   size(i) < size(j) \/ (size(i) = size(j) /\ i <= j)}
                           IN  IF usable = {} THEN None
                               ELSE vs[CHOOSE i \in best : TRUE].src

Arr(items) == [isArray |-> TRUE, items |-> items]
NotArr == [isArray |-> FALSE, items |-> <<>>]

Config(title, captions, streams) ==
    [title |-> title, captions |-> captions, streams |-> streams]

NoConfig == Config(None, NotArr, NotArr)

\* Result<JsonValue>
CfgOk(c) == [tag |-> "Ok", cfg |-> c, err |-> ""]
CfgErr(e) == [tag |-> "Err", cfg |-> NoConfig, err |-> e]

\* A plausible bug: a missing setter is reported with the error of the JSON
\* parse.
get_video_config_one_message(page) ==
    IF page.net \in {"fail", "hang"} THEN CfgErr("transport")
    ELSE IF page.net = "status" THEN CfgErr("status")
    ELSE IF ~page.script
         THEN CfgErr("Could not find video config script tag on video playback site")
    ELSE LET unwrapped == page.cdataPrefix /\ page.cdataSuffix
             startsWithSetter == page.setter /\ (unwrapped \/ ~page.cdataPrefix)
             parses == page.json /\ (unwrapped \/ ~page.cdataSuffix)
         IN  IF ~startsWithSetter \/ ~parses
             THEN CfgErr("Failed to parse config json from video config script")
             ELSE CfgOk(page.config)

\* get_video_config on the page the server returns.  The script text is
\* described by what it holds: the CDATA prefix and suffix, the setter
\* "window.episode = " and JSON that parses.  The wrapper is removed only
\* when prefix and suffix are both there; otherwise the text is used as is.
get_video_config(page) ==
    IF page.net \in {"fail", "hang"} THEN CfgErr("transport")
    ELSE IF page.net = "status" THEN CfgErr("status")
    ELSE IF ~page.script
         THEN CfgErr("Could not find video config script tag on video playback site")
    ELSE LET unwrapped == page.cdataPrefix /\ page.cdataSuffix
             startsWithSetter == page.setter /\ (unwrapped \/ ~page.cdataPrefix)
             parses == page.json /\ (unwrapped \/ ~page.cdataSuffix)
         IN  IF ~startsWithSetter
             THEN CfgErr("Failed to remove global setter from video config script")
             ELSE IF ~parses
                  THEN CfgErr("Failed to parse config json from video config script")
                  ELSE CfgOk(page.config)

\* get_video_links on the course page: the href of every anchor that has one.
RECURSIVE hrefs(_)
hrefs(anchors) ==
    IF anchors = <<>> THEN <<>> ELSE Head(anchors) \o hrefs(Tail(anchors))

LinksOk(ls) == [tag |-> "Ok", links |-> ls, err |-> ""]
LinksErr(e) == [tag |-> "Err", links |-> <<>>, err |-> e]

get_video_links(recordings) ==
    IF recordings.net = "fail" THEN LinksErr("transport")
    ELSE IF recordings.net = "status" THEN LinksErr("status")
    ELSE IF ~recordings.table THEN LinksErr("Could not find video link in table")
    ELSE LinksOk(hrefs(recordings.anchors))

\* DataRow
DataRow(title, link, transcript, counts) ==
    [title |-> title, link |-> link, transcript |-> transcript,
     defacto |-> counts[1], trivial |-> counts[2], sinn |-> counts[3]]
NoRow == DataRow("", 0, <<>>, <<0, 0, 0>>)

\* Result<DataRow> of a unit, and the outcome of its spawned task.
RowOk(r) == [tag |-> "Ok", row |-> r, err |-> ""]
RowErr(e) == [tag |-> "Err", row |-> NoRow, err |-> e]
RowPanic(e) == [tag |-> "Panic", row |-> NoRow, err |-> e]
RowNone == [tag |-> "None", row |-> NoRow, err |-> ""]

\* The end of get_data: the counting loop and the row.
make_row(title, link, transcript) ==
    RowOk(DataRow(title, link, transcript, count_patterns(transcript)))

\* A plausible bug: the fallback is left out and the captions error returned.
get_transcript_nofallback(video_config) == "fail"

\* The Err arm of get_transcript: recognition when a stream is selected,
\* the error "Could not find a video url" otherwise.
get_transcript_fallback(video_config) ==
    IF get_video_url(video_config) # None THEN "whisper" ELSE "fail"

(***************************************************************************)
(* The pages, caption files and media the model's server holds.            *)
(***************************************************************************)
MainAudio ==
    Stream("mainAudio", Arr(<<Variant(Some("hi.mp4"), Some(1920), Some(1080)),
                              Variant(Some("lo.mp4"), Some(640), Some(360))>>))
Presentation ==
    Stream("presentation", Arr(<<Variant(Some("slides.mp4"), Some(320), Some(200))>>))

VttDe == Track("vtt", "de", Some("de.vtt"))
VttEn == Track("vtt", "en", Some("en.vtt"))

CfgBoth == Config(Some("both"), Arr(<<VttEn, VttDe>>), Arr(<<Presentation, MainAudio>>))
CfgStreamOnly == Config(Some("stream"), Arr(<<VttEn>>), Arr(<<MainAudio>>))
CfgNeither == Config(Some("neither"), NotArr, Arr(<<Presentation>>))
CfgNoTitle == Config(None, Arr(<<VttDe>>), Arr(<<MainAudio>>))

Page(net, script, config) ==
    [net |-> net, script |-> script, cdataPrefix |-> TRUE, cdataSuffix |-> TRUE,
     setter |-> TRUE, json |-> TRUE, config |-> config]

CapFile(blocks) == [net |-> "ok", parsed |-> TRUE, blocks |-> blocks]
CapUnparsed == [net |-> "ok", parsed |-> FALSE, blocks |-> <<>>]

\* The media behind the stream URL: the download, and what decoding and
\* recognition of it give ("ok", "err": an error value, "panic": an expect
\* or unwrap of the recognizer fails).
Media(net, stt, said) == [net |-> net, stt |-> stt, said |-> said]
NoMedia == Media("fail", "err", <<>>)
Said == <<" ","d","e"," ","f","a","c","t","o"," ","t","r","i","v","i","a","l"," ">>

Recording(page, caption, media) == [page |-> page, caption |-> caption, media |-> media]

\* The recordings of the model, one for each way a unit can go.
Recordings == {
    \* captions with cues: a row by the captions path
    Recording(Page("ok", TRUE, CfgBoth), CapFile(<<Que(<<T_trivial>>), Que(<<T_trivial>>),
                                                    Que(<<T_sinn>>)>>), NoMedia),
    \* the config fetch fails
    Recording(Page("fail", FALSE, NoConfig), NoFile, NoMedia),
    \* no caption track, a stream: recognition
    Recording(Page("ok", TRUE, CfgStreamOnly), NoFile, Media("ok", "ok", Said)),
    \* neither a caption track nor a stream
    Recording(Page("ok", TRUE, CfgNeither), NoFile, NoMedia),
    \* a caption file without blocks, a stream: fallback
    Recording(Page("ok", TRUE, CfgBoth), CapFile(<<>>), Media("ok", "ok", Said)),
    \* a caption file that does not parse, the media download fails
    Recording(Page("ok", TRUE, CfgBoth), CapUnparsed, NoMedia),
    \* a caption file with a style block only
    Recording(Page("ok", TRUE, CfgBoth), CapFile(<<StyleBlock>>), Media("ok", "ok", Said)) }

\* The course page: the table, and for each anchor its href (None: no href).
Course(net, table, anchors) == [net |-> net, table |-> table, anchors |-> anchors]

CoursePages(n) ==
    {Course("fail", FALSE, <<>>), Course("ok", FALSE, <<>>)}
    \cup {Course("ok", TRUE, [i \in 1..m |-> Some(i)]) : m \in 0..n}
    \cup {Course("ok", TRUE, <<None, Some(1)>>)}

CountIdle ==
    /\ text = <<>>
    /\ cphase = "idle"
    /\ cnt = <<0, 0, 0>>
    /\ padText = <<>>
    /\ padCnt = <<0, 0, 0>>

RetNone == [tag |-> "None", err |-> ""]

BatchIdle ==
    /\ course = Course("fail", FALSE, <<>>)
    /\ site = <<>>
    /\ dpc = "idle"
    /\ links = <<>>
    /\ upc = <<>>
    /\ ures = <<>>
    /\ capTries = <<>>
    /\ recog = <<>>
    /\ capRes = <<>>
    /\ drained = <<>>
    /\ data = <<>>
    /\ log = <<>>
    /\ ret = RetNone
    /\ outOfOrder = FALSE
    /\ workers = 0

NoSessFile == [valid |-> FALSE, cookies |-> {}]

\* No response has arrived.
NoCheckResp == [net |-> "none", url |-> ""]
NoPostResp == [net |-> "none", title |-> <<>>, message |-> <<>>, form |-> FALSE,
               action |-> FALSE]

\* The session file: whether it exists, and what it holds: the serialized
\* cookie stores written to it one after the other, or bytes that are no
\* serialized cookie store.
Disk(exists, garbage, docs) == [exists |-> exists, garbage |-> garbage, docs |-> docs]
NoDisk == Disk(FALSE, FALSE, <<>>)

MainIdle ==
    /\ mpc = "idle"
    /\ disk = NoDisk
    /\ trace = <<>>
    /\ mlinks = <<>>
    /\ mrows = <<>>

LockIdle ==
    /\ lock = [kind |-> "free", id |-> 0]
    /\ ppc = "idle"
    /\ rq = <<>>

BuildIdle ==
    /\ MainIdle
    /\ LockIdle
    /\ mode = "New"
    /\ sessFile = NoSessFile
    /\ bpc = "idle"
    /\ cookie_jar = {}
    /\ session_key = None
    /\ requests = <<>>
    /\ checked = "none"
    /\ loginEntered = FALSE
    /\ buildErr = ""
    /\ calls = <<>>
    /\ checkResp = NoCheckResp
    /\ postResp = NoPostResp

LocIdle ==
    /\ locPage = Page("fail", FALSE, NoConfig)
    /\ locPc = "idle"
    /\ locConfig = CfgErr("")
    /\ caption_url = None
    /\ video_url = None
    /\ resolveBy = ""

CacheIdle ==
    /\ unit_url = <<>>
    /\ wpc = <<>>
    /\ cache_dir = <<>>
    /\ heard = <<>>

RestIdle == LocIdle /\ CacheIdle

CueIdle ==
    /\ capFile = NoFile
    /\ rphase = "idle"
    /\ raw = <<>>
    /\ reduced = <<>>
    /\ reapplied = <<>>
    /\ cueOut = NoResult

InitCues ==
    /\ BuildIdle
    /\ CountIdle
    /\ BatchIdle
    /\ RestIdle
    /\ capFile \in CaptionFiles(MaxCues)
    /\ rphase = "input"
    /\ raw = <<>>
    /\ reduced = <<>>
    /\ reapplied = <<>>
    /\ cueOut = NoResult

\* The captions path on the file: the cue list, its reduction, the result.
ReduceCues ==
    /\ rphase = "input"
    /\ raw' = IF capFile.parsed THEN cue_texts(capFile.blocks) ELSE <<>>
    /\ cueOut' = get_opencast_transcript(capFile)
    /\ reduced' = IF cueOut'.tag = "Ok" THEN reduce_cues(raw') ELSE <<>>
    /\ rphase' = "reduced"
    /\ UNCHANGED <<capFile, reapplied>>
    /\ UNCHANGED <<countVars, batchVars, buildVars, restVars>>

\* The reduction applied to its own output.
ReapplyReduction ==
    /\ rphase = "reduced"
    /\ cueOut.tag = "Ok"
    /\ reapplied' = reduce_cues(reduced)
    /\ rphase' = "again"
    /\ UNCHANGED <<capFile, raw, reduced, cueOut>>
    /\ UNCHANGED <<countVars, batchVars, buildVars, restVars>>

NextCues == ReduceCues \/ ReapplyReduction

SpecCues == InitCues /\ [][NextCues]_vars

(***************************************************************************)
(* The Pattern Counter on its own: transcripts built of up to MaxPieces    *)
(* pieces; the counter is applied to the transcript and to the transcript  *)
(* with whitespace or punctuation put around it.                           *)
(***************************************************************************)
Pieces == <<
    <<"t","r","i","v","i","a","l">>,
    <<"d","e"," ","f","a","c","t","o">>,
    <<"E","r","g","i","b","t"," ","d","a","s"," ","S","i","n","n">>,
    <<" ">>,
    <<".">>,
    <<"y">>,
    <<"ö">> >>

Transcripts ==
    UNION {{Flatten([i \in 1..n |-> Pieces[f[i]]]) : f \in [1..n -> 1..Len(Pieces)]} :
              n \in 0..MaxPieces}

\* What may be put around a transcript: nothing, whitespace or punctuation.
Pads == {<<>>, <<" ">>, <<".">>}

InitCount ==
    /\ BuildIdle
    /\ CueIdle
    /\ BatchIdle
    /\ RestIdle
    /\ text \in Transcripts
    /\ cphase = "input"
    /\ cnt = <<0, 0, 0>>
    /\ padText = <<>>
    /\ padCnt = <<0, 0, 0>>

\* The counting loop of get_data applied to the transcript.
CountTranscript ==
    /\ cphase = "input"
    /\ cnt' = count_patterns(text)
    /\ cphase' = "counted"
    /\ UNCHANGED <<text, padText, padCnt>>
    /\ UNCHANGED <<cueVars, batchVars, buildVars, restVars>>

\* The counting loop applied to the same transcript with whitespace or
\* punctuation before and after it.
CountPadded ==
    /\ cphase = "counted"
    /\ \E l \in Pads, r \in Pads :
          /\ padText' = l \o text \o r
          /\ padCnt' = count_patterns(l \o text \o r)
    /\ cphase' = "padded"
    /\ UNCHANGED <<text, cnt>>
    /\ UNCHANGED <<cueVars, batchVars, buildVars, restVars>>

NextCount == CountTranscript \/ CountPadded

SpecCount == InitCount /\ [][NextCount]_vars

(***************************************************************************)
(* The Fan-out Coordinator: do_stuff and the tasks it spawns.  A step of a *)
(* task runs from one await to the next.                                   *)
(***************************************************************************)
Range(f) == {f[i] : i \in DOMAIN f}

\* do_stuff is about to run: a course page, the recording behind each of its
\* links, a runtime with so many worker threads.
InitUnits(pages, recordings, pool) ==
    /\ BuildIdle
    /\ RestIdle
    /\ CountIdle
    /\ CueIdle
    /\ course \in pages
    /\ site \in [Range(hrefs(course.anchors)) -> recordings]
    /\ workers \in pool
    /\ dpc = "start"
    /\ links = <<>>
    /\ upc = <<>>
    /\ ures = <<>>
    /\ capTries = <<>>
    /\ recog = <<>>
    /\ capRes = <<>>
    /\ drained = <<>>
    /\ data = <<>>
    /\ log = <<>>
    /\ ret = RetNone
    /\ outOfOrder = FALSE

\* A worker thread for every task: every interleaving of the tasks that a
\* smaller pool allows is allowed.
InitBatch == InitUnits(CoursePages(MaxLinks), Recordings, {MaxLinks})

\* do_stuff up to its first handle.await: the links are enumerated and one
\* task per link is spawned; an enumeration error is returned.
do_stuff_spawn ==
    /\ dpc = "start"
    /\ LET r == get_video_links(course)
           n == Len(r.links)
       IN  /\ links' = r.links
           /\ upc' = [i \in 1..n |-> "config"]
           /\ ures' = [i \in 1..n |-> RowNone]
           /\ capTries' = [i \in 1..n |-> 0]
           /\ recog' = [i \in 1..n |-> 0]
           /\ capRes' = [i \in 1..n |-> NoResult]
           /\ ret' = IF r.tag = "Err" THEN [tag |-> "Err", err |-> r.err]
                     ELSE IF n = 0 THEN [tag |-> "Ok", err |-> ""]
                     ELSE RetNone
           /\ dpc' = IF r.tag = "Err" \/ n = 0 THEN "done" ELSE "drain"
    /\ UNCHANGED <<course, site, drained, data, log, outOfOrder, workers>>
    /\ UNCHANGED <<countVars, cueVars, buildVars, restVars>>

\* A plausible bug: the handles are awaited as they complete.
handle_to_await_completed ==
    LET c == {i \in 1..Len(links) : upc[i] = "done" /\ i \notin Range(drained)}
    IN  IF c = {} THEN Len(drained) + 1 ELSE Max(c)

\* for handle in handles: the handle awaited next is the next one spawned.
handle_to_await == Len(drained) + 1

\* One turn of the loop over the handles: handle.await? and the match on
\* the task's result; after the last handle Ok(data) is returned.
do_stuff_drain ==
    /\ dpc = "drain"
    /\ LET h == handle_to_await
       IN  /\ h \in 1..Len(links)
           /\ upc[h] = "done"
           /\ drained' = Append(drained, h)
           /\ data' = IF ures[h].tag = "Ok" THEN Append(data, ures[h].row) ELSE data
           /\ log' = IF ures[h].tag = "Err" THEN Append(log, ures[h].err) ELSE log
           /\ ret' = IF ures[h].tag = "Panic" THEN [tag |-> "Err", err |-> "JoinError"]
                     ELSE IF Len(drained) + 1 = Len(links) THEN [tag |-> "Ok", err |-> ""]
                     ELSE RetNone
           /\ dpc' = IF ret'.tag = "None" THEN "drain" ELSE "done"
    /\ UNCHANGED <<course, site, links, unitVars, workers>>
    /\ UNCHANGED <<countVars, cueVars, buildVars, restVars>>

\* The client of Session::default and Session::restore: ClientBuilder with
\* a cookie store and no timeout, so a request waits for its response
\* without limit.
client_timeout == None

\* A request of the client comes back, with a response or an error: the
\* server answers or refuses, or the timeout of the client ends the wait.
Returns(net) == net # "hang" \/ client_timeout # None

\* A task is polled on a worker thread of the runtime.  Recognition has no
\* await in it: the task keeps its thread from the end of the download to
\* the end of recognition.
Recognizing == {v \in 1..Len(links) : upc[v] = "stt"}
WorkerFree == Cardinality(Recognizing) < workers

\* The task of handle u can take its next step: what it awaits has come
\* back and a worker thread polls it; in recognition it has its thread.
Runnable(u) ==
    CASE upc[u] = "config" -> Returns(site[links[u]].page.net) /\ WorkerFree
      [] upc[u] \in {"captions", "video"} -> WorkerFree
      [] upc[u] = "stt" -> TRUE
      [] OTHER -> FALSE

\* The task of handle u moves to pc2 with result res.
Step(u, pc2, res, dCap, dRecog, cres) ==
    /\ upc' = [upc EXCEPT ![u] = pc2]
    /\ ures' = [ures EXCEPT ![u] = res]
    /\ capTries' = [capTries EXCEPT ![u] = @ + dCap]
    /\ recog' = [recog EXCEPT ![u] = @ + dRecog]
    /\ capRes' = [capRes EXCEPT ![u] = cres]
    /\ outOfOrder' = (outOfOrder \/ (pc2 = "done" /\ \E v \in 1..(u - 1) : upc[v] # "done"))
    /\ UNCHANGED <<course, site, dpc, links, drained, data, log, ret, workers>>
    /\ UNCHANGED <<countVars, cueVars, buildVars, restVars>>

\* A plausible bug: a failed captions path is tried once more before the
\* fallback.
Fallback_retry(u, video_config, cres) ==
    IF get_caption_url(video_config) # None /\ capTries[u] < 2
    THEN Step(u, "captions", RowNone, 1, 0, cres)
    ELSE IF get_transcript_fallback(video_config) = "whisper"
         THEN Step(u, "video", RowNone, 0, 1, cres)
         ELSE Step(u, "done", RowErr("Could not find a video url"), 0, 0, cres)

\* get_transcript after the captions path gave the error cres.
Fallback(u, video_config, cres) ==
    IF get_transcript_fallback(video_config) = "whisper"
    THEN Step(u, "video", RowNone, 0, 1, cres)
    ELSE Step(u, "done", RowErr("Could not find a video url"), 0, 0, cres)

\* get_data from the response of the recording page to the next await:
\* the config, the title, the choice of the caption track.
get_data_config(u) ==
    /\ upc[u] = "config"
    /\ Runnable(u)
    /\ LET r == get_video_config(site[links[u]].page)
       IN  IF r.tag = "Err" THEN Step(u, "done", RowErr(r.err), 0, 0, NoResult)
           ELSE IF r.cfg.title = None
                THEN Step(u, "done", RowErr("Could not find title in video metadata"),
                          0, 0, NoResult)
           ELSE IF get_caption_url(r.cfg) # None
                THEN Step(u, "captions", RowNone, 1, 0, NoResult)
           ELSE Fallback(u, r.cfg, Err("Could not find a caption url"))

\* The caption file has arrived: get_opencast_transcript, then the row or
\* the fallback.
get_data_captions(u) ==
    /\ upc[u] = "captions"
    /\ Runnable(u)
    /\ LET rec == site[links[u]]
           cres == get_opencast_transcript(rec.caption)
       IN  CASE cres.tag = "Ok" ->
                  Step(u, "done", make_row(rec.page.config.title[1], links[u], cres.text),
                       0, 0, cres)
             [] cres.tag = "Err" -> Fallback(u, rec.page.config, cres)
             [] cres.tag = "Panic" -> Step(u, "done", RowPanic(cres.err), 0, 0, cres)

\* get_whisper_transcript: the media download has ended.
get_data_video(u) ==
    /\ upc[u] = "video"
    /\ Runnable(u)
    /\ IF site[links[u]].media.net = "ok"
       THEN Step(u, "stt", RowNone, 0, 0, capRes[u])
       ELSE Step(u, "done", RowErr("transport"), 0, 0, capRes[u])

\* STTContext::get_whisper_transcript has ended.
get_data_stt(u) ==
    /\ upc[u] = "stt"
    /\ Runnable(u)
    /\ LET rec == site[links[u]]
       IN  CASE rec.media.stt = "ok" ->
                  Step(u, "done", make_row(rec.page.config.title[1], links[u], rec.media.said),
                       0, 0, capRes[u])
             [] rec.media.stt = "err" -> Step(u, "done", RowErr("recognition"), 0, 0, capRes[u])
             [] rec.media.stt = "panic" ->
                  Step(u, "done", RowPanic("failed to get segment"), 0, 0, capRes[u])

NextBatch ==
    \/ do_stuff_spawn
    \/ do_stuff_drain
    \/ \E u \in 1..Len(links) : get_data_config(u)
    \/ \E u \in 1..Len(links) : get_data_captions(u)
    \/ \E u \in 1..Len(links) : get_data_video(u)
    \/ \E u \in 1..Len(links) : get_data_stt(u)

SpecBatch == InitBatch /\ [][NextBatch]_vars

\* Bound: the worker threads of the runtime.
MaxWorkers == 2

\* do_stuff on a runtime with a pool of one to MaxWorkers worker threads.
InitPool == InitUnits(CoursePages(MaxLinks), Recordings, 1..MaxWorkers)

SpecPool == InitPool /\ [][NextBatch]_vars

\* Bound: the links of the course page when a server may leave a request
\* without answer.
MaxHungLinks == 2

\* A recording whose page request is never answered.
HungRecording == Recording(Page("hang", FALSE, NoConfig), NoFile, NoMedia)

InitHang == InitUnits(CoursePages(MaxHungLinks), Recordings \cup {HungRecording},
                      {MaxHungLinks})

SpecHang == InitHang /\ [][NextBatch]_vars

(***************************************************************************)
(* The Resource Locator on one recording page: get_video_config, then the  *)
(* two selections get_transcript makes on the config (defacto.rs 221-308). *)
(***************************************************************************)
\* Bounds: the variants of the mainAudio stream, the caption tracks.
MaxVariants == 2
MaxTracks == 2

\* res.w and res.h of a variant: absent or a number.  The products stay far
\* below the width of usize (a frame dimension of an mp4 track has 16 bits).
Dims == {None, Some(1), Some(2)}

\* The mp4 lists of a stream: the i-th variant has the source <<s, i>>
\* unless it has none.
Mp4Lists(s, n) ==
    {NotArr} \cup
    UNION {{Arr([i \in 1..m |-> Variant(IF hasSrc[i] THEN Some(<<s, i>>) ELSE None,
                                        w[i], h[i])]) :
                hasSrc \in [1..m -> BOOLEAN], w \in [1..m -> Dims], h \in [1..m -> Dims]} :
           m \in 0..n}

\* A stream of another role before the mainAudio stream and a second
\* mainAudio stream after it, each with one variant of the least area.
SlideStream == Stream("presentation", Arr(<<Variant(Some(<<"slides", 1>>), Some(1), Some(1))>>))
SecondAudio == Stream("mainAudio", Arr(<<Variant(Some(<<"second", 1>>), Some(1), Some(1))>>))

StreamLists(n) ==
    {NotArr, Arr(<<>>), Arr(<<SlideStream>>)}
    \cup {Arr(pre \o <<Stream("mainAudio", mp4)>> \o post) :
            pre \in {<<>>, <<SlideStream>>}, post \in {<<>>, <<SecondAudio>>},
            mp4 \in Mp4Lists("first", n)}

\* The caption lists: the i-th track has the url i unless it has none.
TrackLists(n) ==
    {NotArr} \cup
    UNION {{Arr([i \in 1..m |-> Track(f[i], l[i], IF hasUrl[i] THEN Some(i) ELSE None)]) :
                f \in [1..m -> {"vtt", "srt"}], l \in [1..m -> {"de", "en"}],
                hasUrl \in [1..m -> BOOLEAN]} :
           m \in 0..n}

\* The configs: every caption list beside a few stream lists, and every
\* stream list beside a few caption lists.
LocConfigs(tracks, variants) ==
    {Config(Some("t"), c, s) :
        c \in TrackLists(tracks),
        s \in {NotArr, Arr(<<SecondAudio>>), Arr(<<SlideStream>>)}}
    \cup {Config(Some("t"), c, s) :
        c \in {NotArr, Arr(<<Track("vtt", "de", Some(1))>>)},
        s \in StreamLists(variants)}

\* The pages: what the transport gives, and what the script node holds.
LocPages ==
    {[net |-> n, script |-> sc, cdataPrefix |-> cp, cdataSuffix |-> cs, setter |-> st,
      json |-> js, config |-> Config(Some("t"), NotArr, Arr(<<SecondAudio>>))] :
        n \in {"ok", "fail", "status"}, sc \in BOOLEAN, cp \in BOOLEAN, cs \in BOOLEAN,
        st \in BOOLEAN, js \in BOOLEAN}

InitLoc(pages) ==
    /\ CountIdle
    /\ CueIdle
    /\ BatchIdle
    /\ BuildIdle
    /\ CacheIdle
    /\ locPage \in pages
    /\ locPc = "page"
    /\ locConfig = CfgErr("")
    /\ caption_url = None
    /\ video_url = None
    /\ resolveBy = ""

LocFrame == UNCHANGED <<countVars, cueVars, batchVars, buildVars, cacheVars>>

\* get_video_config on the response.
locate_config ==
    /\ locPc = "page"
    /\ locConfig' = get_video_config(locPage)
    /\ locPc' = IF locConfig'.tag = "Ok" THEN "config" ELSE "err"
    /\ UNCHANGED <<locPage, caption_url, video_url, resolveBy>>
    /\ LocFrame

\* get_transcript on the config: the caption track when there is one, the
\* media stream otherwise.
locate_urls ==
    /\ locPc = "config"
    /\ caption_url' = get_caption_url(locConfig.cfg)
    /\ video_url' = get_video_url(locConfig.cfg)
    /\ resolveBy' = IF caption_url' # None THEN "captions"
                    ELSE get_transcript_fallback(locConfig.cfg)
    /\ locPc' = "located"
    /\ UNCHANGED <<locPage, locConfig>>
    /\ LocFrame

NextLoc == locate_config \/ locate_urls

\* Pages that hold a config, for the selections.
InitLocate == InitLoc({Page("ok", TRUE, c) : c \in LocConfigs(MaxTracks, MaxVariants)})
SpecLocate == InitLocate /\ [][NextLoc]_vars

\* Pages that fail at each stage, for get_video_config.
InitConfig == InitLoc(LocPages)
SpecConfig == InitConfig /\ [][NextLoc]_vars

(***************************************************************************)
(* The cache directory under concurrent units: get_whisper_transcript of   *)
(* every unit that fell back to recognition (defacto.rs 346-366).  The     *)
(* units are clones of one DefactoClient and share cache_path; they run as *)
(* tasks of a multi-threaded runtime, so the file operations of different  *)
(* units interleave freely.                                                *)
(***************************************************************************)
\* Bound: the units that download a stream at the same time.
MaxDownloads == 2

\* A stream URL: the directory part of its path and its last segment.
StreamUrl(dir, file) == [dir |-> dir, file |-> file]
StreamUrls == {StreamUrl("a", "track.mp4"), StreamUrl("b", "track.mp4"),
               StreamUrl("b", "slides.mp4")}

\* Path::new(video_url.path()).file_name(): the last path segment.
file_name(url) == url.file

\* The bytes the server holds behind a stream URL.
MediaBytes(url) ==
    IF url.dir = "a" THEN <<<<url, 1>>, <<url, 2>>>> ELSE <<<<url, 1>>>>

\* Write::write at offset 0 of a file that holds old: the bytes replace the
\* start of the file and leave what lies beyond them.
write_at_start(old, bytes) ==
    bytes \o SubSeq(old, Len(bytes) + 1, Len(old))

InitCache ==
    /\ CountIdle
    /\ CueIdle
    /\ BatchIdle
    /\ BuildIdle
    /\ LocIdle
    /\ unit_url \in [1..MaxDownloads -> StreamUrls]
    /\ wpc = [u \in 1..MaxDownloads |-> "start"]
    /\ cache_dir = [f \in {file_name(url) : url \in StreamUrls} |-> <<>>]
    /\ heard = [u \in 1..MaxDownloads |-> <<>>]

CacheFrame ==
    UNCHANGED <<countVars, cueVars, batchVars, buildVars, locVars, unit_url>>

\* File::create(&video_path): the file is created or truncated; then the
\* request for the stream is sent.
whisper_create(u) ==
    /\ wpc[u] = "start"
    /\ cache_dir' = [cache_dir EXCEPT ![file_name(unit_url[u])] = <<>>]
    /\ wpc' = [wpc EXCEPT ![u] = "download"]
    /\ UNCHANGED heard
    /\ CacheFrame

\* The response has arrived: its bytes are written through the handle
\* opened by File::create, whose offset is still 0.
whisper_write(u) ==
    /\ wpc[u] = "download"
    /\ cache_dir' = [cache_dir EXCEPT ![file_name(unit_url[u])] =
                        write_at_start(@, MediaBytes(unit_url[u]))]
    /\ wpc' = [wpc EXCEPT ![u] = "stt"]
    /\ UNCHANGED heard
    /\ CacheFrame

\* STTContext::get_whisper_transcript(video_path): the recognizer opens the
\* file by its path and decodes what it holds.
whisper_recognize(u) ==
    /\ wpc[u] = "stt"
    /\ heard' = [heard EXCEPT ![u] = cache_dir[file_name(unit_url[u])]]
    /\ wpc' = [wpc EXCEPT ![u] = "done"]
    /\ UNCHANGED cache_dir
    /\ CacheFrame

NextCache ==
    \/ \E u \in 1..MaxDownloads : whisper_create(u)
    \/ \E u \in 1..MaxDownloads : whisper_write(u)
    \/ \E u \in 1..MaxDownloads : whisper_recognize(u)

SpecCache == InitCache /\ [][NextCache]_vars

(***************************************************************************)
(* The Session Manager: SessionBuilder::build, Session::restore, check,    *)
(* login and load_key.  A step runs from one response to the next request; *)
(* what the server answers is chosen freely.                               *)
(***************************************************************************)
HomeUrl == "https://tuwel.tuwien.ac.at/my/"
LoginUrl == "(the login page of the identity provider)"
OtherUrl == "https://tuwel.tuwien.ac.at/login/index.php"

GetHome == "GET /my/"
GetEntry == "GET /auth/saml2/login.php"
PostCredentials == "POST username, password, totp, AuthState"
PostRelay == "POST relay form"

\* The requests of login(), that of load_key() included, in their order.
LoginFlow == <<GetEntry, PostCredentials, PostRelay, GetHome>>

\* The serialized cookie stores a Restore may be handed.
SessFiles == {
    [valid |-> FALSE, cookies |-> {}],
    [valid |-> TRUE, cookies |-> {}],
    [valid |-> TRUE, cookies |-> {"MoodleSession"}],
    [valid |-> TRUE, cookies |-> {"MoodleSession", "SimpleSAML"}] }

\* The answers to the request of check(): the transport fails, or a
\* response arrives: its status (success or error), its final URL after
\* redirects and the page it carries.
CheckResponse(net, url, body) == [net |-> net, url |-> url, body |-> body]
CheckResponses ==
    {CheckResponse("fail", "", "")}
    \cup {CheckResponse(net, u, b) : net \in {"ok", "status"},
                                     u \in {HomeUrl, LoginUrl, OtherUrl},
                                     b \in {"dashboard", "login form"}}

\* The answers to the GET of the login entry URL.
EntryResponses == {"fail", "no_input", "no_value", "ok"}

\* The answers to the credential POST: the page title, and what the page
\* holds (the inline error message, the relay form, its action).
PostResponse(net, title, message, form, action) ==
    [net |-> net, title |-> title, message |-> message, form |-> form, action |-> action]
WrongPassword == "Falscher Benutzername oder falsches Passwort"
PostResponses ==
    {PostResponse("fail", None, None, FALSE, FALSE),
     PostResponse("ok", None, None, FALSE, FALSE),
     PostResponse("ok", None, None, TRUE, TRUE),
     PostResponse("ok", Some("TU Wien Login"), Some(WrongPassword), FALSE, FALSE),
     PostResponse("ok", Some("TU Wien Login"), Some(WrongPassword), TRUE, TRUE),
     PostResponse("ok", Some("TU Wien Login"), None, FALSE, FALSE),
     PostResponse("ok", Some("Sende Nachricht"), None, TRUE, TRUE),
     PostResponse("ok", Some("Sende Nachricht"), Some(WrongPassword), TRUE, TRUE),
     PostResponse("ok", Some("Sende Nachricht"), None, TRUE, FALSE),
     PostResponse("ok", Some("Sende Nachricht"), None, FALSE, FALSE),
     PostResponse("ok", Some("Wartung"), None, FALSE, FALSE),
     PostResponse("ok", Some("Wartung"), Some(WrongPassword), TRUE, TRUE)}

RelayResponses == {"fail", "status", "ok"}

\* The answers to the GET of load_key: the stage at which the page fails
\* ("ok": none) and the sesskey of its config (None: the field is missing
\* or not a string).
KeyPage(stage, sesskey) == [stage |-> stage, sesskey |-> sesskey]
KeyFailures == {"fail", "status", "no_script", "no_setter", "no_semicolon", "bad_json"}
SessKeys == {"k1", "k2"}
KeyPages ==
    {KeyPage(f, None) : f \in KeyFailures}
    \cup {KeyPage("ok", None)}
    \cup {KeyPage("ok", Some(k)) : k \in SessKeys}

InitBuild ==
    /\ CountIdle
    /\ CueIdle
    /\ BatchIdle
    /\ RestIdle
    /\ MainIdle
    /\ LockIdle
    /\ mode \in {"New", "Restore"}
    /\ sessFile \in IF mode = "Restore" THEN SessFiles ELSE {NoSessFile}
    /\ bpc = "start"
    /\ cookie_jar = {}
    /\ session_key = None
    /\ requests = <<>>
    /\ checked = "none"
    /\ loginEntered = FALSE
    /\ buildErr = ""
    /\ calls = <<>>
    /\ checkResp = NoCheckResp
    /\ postResp = NoPostResp

BuildFrame == UNCHANGED <<restVars, countVars, cueVars, batchVars, mode, sessFile,
                          mainVars, lockVars>>

\* A plausible bug: a failed step starts the login flow again.
Fail_retry(e) ==
    /\ bpc' = "login_get"
    /\ buildErr' = e
    /\ loginEntered' = TRUE
    /\ requests' = Append(requests, GetEntry)
    /\ calls' = Append(calls, "login")
    /\ UNCHANGED <<cookie_jar, session_key, checked>>

\* The operator ? on an Err: build returns Err(e).
Fail(e) ==
    /\ bpc' = "err"
    /\ buildErr' = e
    /\ UNCHANGED <<cookie_jar, session_key, requests, checked, loginEntered, calls>>

\* login() is entered: the GET of the entry URL is sent.
login ==
    /\ bpc' = "login_get"
    /\ loginEntered' = TRUE
    /\ requests' = Append(requests, GetEntry)
    /\ calls' = Append(calls, "login")

\* load_key() is entered: the GET of the home page is sent.
load_key ==
    /\ bpc' = "load_key"
    /\ requests' = Append(requests, GetHome)
    /\ calls' = Append(calls, "load_key")

\* A plausible bug: every response with a success status counts as live.
check_any_success(response) == TRUE

\* check(): the final URL of the response is compared with the home URL.
check(response) == response.url = HomeUrl

\* A plausible bug: the branches of restore are swapped.
restore_after_check_swapped(live) == IF live THEN "login" ELSE "load_key"

\* restore after check(): login when the session is not live, load_key
\* when it is.
restore_after_check(live) == IF ~live THEN "login" ELSE "load_key"

\* SessionBuilder::build up to the first request.  New: a default Session,
\* then login.  Restore: load_json(..).unwrap(), the client, then check.
build ==
    /\ bpc = "start"
    /\ IF mode = "New"
       THEN /\ login
            /\ UNCHANGED <<cookie_jar, session_key, checked, buildErr>>
       ELSE IF ~sessFile.valid
            THEN /\ bpc' = "panic"
                 /\ UNCHANGED <<cookie_jar, session_key, requests, checked,
                                loginEntered, buildErr, calls>>
            ELSE /\ cookie_jar' = sessFile.cookies
                 /\ bpc' = "check"
                 /\ requests' = Append(requests, GetHome)
                 /\ calls' = Append(calls, "check")
                 /\ UNCHANGED <<session_key, checked, loginEntered, buildErr>>
    /\ UNCHANGED <<checkResp, postResp>>
    /\ BuildFrame

\* restore: the response of check() has arrived.
restore ==
    /\ bpc = "check"
    /\ \E response \in CheckResponses :
          /\ checkResp' = response
          /\ IF response.net # "ok"
             THEN Fail("Failed to send request to home page")
             ELSE /\ checked' = IF check(response) THEN "live" ELSE "dead"
                  /\ IF restore_after_check(check(response)) = "login"
                     THEN login
                     ELSE load_key /\ UNCHANGED loginEntered
                  /\ UNCHANGED <<cookie_jar, session_key, buildErr>>
    /\ UNCHANGED postResp
    /\ BuildFrame

\* login: the login form has arrived; the AuthState input and its value
\* are looked up and the credentials posted.
login_form ==
    /\ bpc = "login_get"
    /\ \E response \in EntryResponses :
          CASE response = "fail" -> Fail("transport")
            [] response = "no_input" ->
                 Fail("auth state input not found on TU simple saml login page")
            [] response = "no_value" -> Fail("No value attribute found for auth state input")
            [] response = "ok" ->
                 /\ bpc' = "login_post"
                 /\ requests' = Append(requests, PostCredentials)
                 /\ cookie_jar' = cookie_jar \cup {"SimpleSAML"}
                 /\ UNCHANGED <<session_key, checked, loginEntered, buildErr, calls>>
    /\ UNCHANGED <<checkResp, postResp>>
    /\ BuildFrame

\* A plausible bug: the match has a default arm that goes on.
match_title_default_relay(title) ==
    IF title = "TU Wien Login" THEN "rejected" ELSE "relay"

\* match title.as_str()
match_title(title) ==
    CASE title = "TU Wien Login" -> "rejected"
      [] title = "Sende Nachricht" -> "relay"
      [] OTHER -> "unexpected"

\* login: the answer to the credential POST has arrived; the title decides.
login_title ==
    /\ bpc = "login_post"
    /\ \E response \in PostResponses :
          /\ postResp' = response
          /\ IF response.net # "ok" THEN Fail("transport")
             ELSE IF response.title = None
                  THEN Fail("Failed to find login form response title")
             ELSE IF match_title(response.title[1]) = "rejected"
                  THEN IF response.message # None THEN Fail(response.message[1])
                       ELSE Fail("Failed to find error message in login form response")
             ELSE IF match_title(response.title[1]) = "unexpected"
                  THEN Fail("Unexpected login form response title")
             ELSE IF ~response.form
                  THEN /\ bpc' = "panic"
                       /\ UNCHANGED <<cookie_jar, session_key, requests, checked,
                                      loginEntered, buildErr, calls>>
             ELSE IF ~response.action
                  THEN Fail("Could not extract message action from login form response")
             ELSE /\ bpc' = "login_relay"
                  /\ requests' = Append(requests, PostRelay)
                  /\ UNCHANGED <<cookie_jar, session_key, checked, loginEntered,
                                 buildErr, calls>>
    /\ UNCHANGED checkResp
    /\ BuildFrame

\* login: the answer to the relay POST has arrived; load_key follows.
login_relay ==
    /\ bpc = "login_relay"
    /\ \E response \in RelayResponses :
          IF response # "ok" THEN Fail(response)
          ELSE /\ load_key
               /\ cookie_jar' = cookie_jar \cup {"MoodleSession"}
               /\ UNCHANGED <<session_key, checked, loginEntered, buildErr>>
    /\ UNCHANGED <<checkResp, postResp>>
    /\ BuildFrame

KeyOk(k) == [tag |-> "Ok", key |-> k, err |-> ""]
KeyErr(e) == [tag |-> "Err", key |-> None, err |-> e]

\* A plausible bug: the sesskey is stored as it is found, present or not.
load_key_parse_unchecked(page) ==
    IF page.stage # "ok" THEN KeyErr(page.stage) ELSE KeyOk(page.sesskey)

\* load_key on the home page: the script, the setter line, the JSON, the
\* sesskey; the first stage that fails is the error.
load_key_parse(page) ==
    IF page.stage # "ok" THEN KeyErr(page.stage)
    ELSE IF page.sesskey = None THEN KeyErr("Failed to get sesskey from moodle config json")
    ELSE KeyOk(page.sesskey)

\* load_key: the home page has arrived; the sesskey is read and stored.
load_key_page ==
    /\ bpc = "load_key"
    /\ \E page \in KeyPages :
          LET r == load_key_parse(page)
          IN  IF r.tag = "Err" THEN Fail(r.err)
              ELSE /\ session_key' = r.key
                   /\ bpc' = "ok"
                   /\ UNCHANGED <<cookie_jar, requests, checked, loginEntered,
                                  buildErr, calls>>
    /\ UNCHANGED <<checkResp, postResp>>
    /\ BuildFrame

NextBuild ==
    \/ build
    \/ restore
    \/ login_form
    \/ login_title
    \/ login_relay
    \/ load_key_page

SpecBuild == InitBuild /\ [][NextBuild]_vars

(***************************************************************************)
(* main (main.rs): the session is built, the cookie store persisted, the   *)
(* recordings visited one after the other, the cookie store persisted once *)
(* more and the rows written.  The steps of build are those of the Session *)
(* Manager above.                                                          *)
(***************************************************************************)
\* Bound: the anchors of the course page main visits.
MaxVideos == 2

\* The Set-Cookie headers a response may carry: none, a cookie the store
\* does not hold yet, a cookie of the store sent as expired.
SetCookies ==
    {[set |-> {}, expired |-> {}],
     [set |-> {"MOODLEID1_"}, expired |-> {}],
     [set |-> {}, expired |-> {"MoodleSession"}]}

\* The cookie provider on a response: an expired cookie is removed from the
\* store, any other one is inserted.
set_cookies(jar, headers) == (jar \ headers.expired) \cup headers.set

\* The session files a run may find.
Disks ==
    {NoDisk, Disk(TRUE, TRUE, <<>>)}
    \cup {Disk(TRUE, FALSE, <<f.cookies>>) : f \in {g \in SessFiles : g.valid}}

\* CookieStore::load_json on the bytes of the session file: one cookie a
\* line, whatever call of persist wrote the line.
RECURSIVE load_json_cookies(_)
load_json_cookies(docs) ==
    IF docs = <<>> THEN {} ELSE Head(docs) \cup load_json_cookies(Tail(docs))
load_json(d) == [valid |-> ~d.garbage, cookies |-> load_json_cookies(d.docs)]

InitMain ==
    /\ CountIdle
    /\ CueIdle
    /\ BatchIdle
    /\ RestIdle
    /\ LockIdle
    /\ mode = "New"
    /\ sessFile = NoSessFile
    /\ bpc = "idle"
    /\ cookie_jar = {}
    /\ session_key = None
    /\ requests = <<>>
    /\ checked = "none"
    /\ loginEntered = FALSE
    /\ buildErr = ""
    /\ calls = <<>>
    /\ checkResp = NoCheckResp
    /\ postResp = NoPostResp
    /\ mpc = "start"
    /\ disk \in Disks
    /\ trace = <<>>
    /\ mlinks = <<>>
    /\ mrows = <<>>

MainFrame == UNCHANGED <<restVars, countVars, cueVars, batchVars, session_key,
                         requests, checked, loginEntered, buildErr, calls, checkResp,
                         postResp, lockVars>>

\* The cookie store once a response of the pipeline has arrived: the cookie
\* provider stores the cookies it sets; no response, no change.
main_response(net, headers) ==
    IF net \in {"fail", "hang"} THEN cookie_jar ELSE set_cookies(cookie_jar, headers)

\* main up to the call of build: the config, the one-time code, the choice
\* of the SessionBuilder by the existence of the session file.
main_start ==
    /\ mpc = "start"
    /\ \E startup \in {"ok", "fail"}, opened \in BOOLEAN :
          IF startup = "fail" \/ (disk.exists /\ ~opened)
          THEN /\ mpc' = "err"
               /\ UNCHANGED <<mode, sessFile, bpc>>
          ELSE /\ mpc' = "build"
               /\ bpc' = "start"
               /\ mode' = IF disk.exists THEN "Restore" ELSE "New"
               /\ sessFile' = IF disk.exists THEN load_json(disk) ELSE NoSessFile
    /\ UNCHANGED <<disk, trace, mlinks, mrows, cookie_jar>>
    /\ MainFrame

\* A plausible bug: the cookie store is persisted after the first request
\* of the pipeline has been sent.
main_after_build_late == <<"GET recordings", "persist">>

\* What main does once the client is built: persist, then the request for
\* the course page.
main_after_build == <<"persist", "GET recordings">>

\* The top of the loop over the links, and what follows the loop: with no
\* link left the cookie store is persisted again and the rows are written;
\* an anchor without href ends main with an error; otherwise the recording
\* page is requested.  jar is the cookie store at that time.
main_loop(ls, tr, rows, jar) ==
    /\ mlinks' = ls
    /\ mrows' = rows
    /\ IF ls = <<>>
       THEN /\ trace' = Append(tr, "persist")
            /\ \E saved \in BOOLEAN, written \in BOOLEAN :
                  /\ disk' = IF saved THEN [disk EXCEPT !.docs = Append(@, jar)]
                             ELSE disk
                  /\ mpc' = IF ~saved THEN "panic" ELSE IF written THEN "done" ELSE "err"
       ELSE IF Head(ls) = None
            THEN /\ mpc' = "err"
                 /\ trace' = tr
                 /\ UNCHANGED disk
            ELSE /\ mpc' = "video"
                 /\ trace' = Append(tr, "GET video")
                 /\ UNCHANGED disk

\* build has ended: its error or panic ends main; with a client the session
\* file is created (and so emptied), the cookie store persisted and the
\* course page requested.
main_built ==
    /\ mpc = "build"
    /\ bpc \in {"ok", "err", "panic"}
    /\ IF bpc # "ok"
       THEN /\ mpc' = IF bpc = "err" THEN "err" ELSE "panic"
            /\ UNCHANGED <<disk, trace>>
       ELSE \E created \in BOOLEAN, saved \in BOOLEAN :
               IF ~created
               THEN /\ mpc' = "err"
                    /\ UNCHANGED <<disk, trace>>
               ELSE IF ~saved
               THEN /\ mpc' = "panic"
                    /\ disk' = Disk(TRUE, FALSE, <<>>)
                    /\ trace' = SubSeq(main_after_build, 1, 1)
               ELSE /\ mpc' = "recordings"
                    /\ disk' = Disk(TRUE, FALSE, <<cookie_jar>>)
                    /\ trace' = main_after_build
    /\ UNCHANGED <<mode, sessFile, bpc, mlinks, mrows, cookie_jar>>
    /\ MainFrame

\* The course page has arrived: the table, its anchors, the first turn of
\* the loop.
main_recordings ==
    /\ mpc = "recordings"
    /\ \E page \in CoursePages(MaxVideos), headers \in SetCookies :
       LET jar == main_response(page.net, headers)
       IN /\ cookie_jar' = jar
          /\ IF page.net # "ok" \/ ~page.table
             THEN /\ mpc' = "err"
                  /\ UNCHANGED <<disk, trace, mlinks, mrows>>
             ELSE \E recs \in [1..Len(page.anchors) -> Recordings] :
                     main_loop([i \in 1..Len(page.anchors) |->
                                   IF page.anchors[i] = None THEN None ELSE Some(recs[i])],
                               trace, <<>>, jar)
    /\ UNCHANGED <<mode, sessFile, bpc>>
    /\ MainFrame

\* captions[0]["url"].as_str()
main_caption_link(video_config) ==
    IF video_config.captions.isArray /\ Len(video_config.captions.items) >= 1
    THEN video_config.captions.items[1].url
    ELSE None

\* The recording page has arrived: the config, the first caption track, the
\* title; without track or title the loop goes on with the next link.
main_video ==
    /\ mpc = "video"
    /\ \E headers \in SetCookies :
       LET rec == Head(mlinks)[1]
           r == get_video_config(rec.page)
           jar == main_response(rec.page.net, headers)
       IN  /\ cookie_jar' = jar
           /\ IF r.tag = "Err"
              THEN /\ mpc' = "err"
                   /\ UNCHANGED <<disk, trace, mlinks, mrows>>
              ELSE IF main_caption_link(r.cfg) = None \/ r.cfg.title = None
                   THEN main_loop(Tail(mlinks), trace, mrows, jar)
                   ELSE /\ mpc' = "captions"
                        /\ trace' = Append(trace, "GET captions")
                        /\ UNCHANGED <<disk, mlinks, mrows>>
    /\ UNCHANGED <<mode, sessFile, bpc>>
    /\ MainFrame

\* The caption file has arrived: the cues, the reduction, the counts and
\* the row; a file without blocks is skipped.
main_captions ==
    /\ mpc = "captions"
    /\ \E headers \in SetCookies :
       LET rec == Head(mlinks)[1]
           cres == get_opencast_transcript(rec.caption)
           jar == main_response(rec.caption.net, headers)
       IN  /\ cookie_jar' = jar
           /\ IF cres.tag = "Ok"
              THEN main_loop(Tail(mlinks), trace,
                             Append(mrows, make_row(rec.page.config.title[1],
                                                    main_caption_link(rec.page.config)[1],
                                                    cres.text).row), jar)
              ELSE IF cres.tag = "Err" /\ cres.err = "Captions are empty"
                   THEN main_loop(Tail(mlinks), trace, mrows, jar)
                   ELSE /\ mpc' = IF cres.tag = "Panic" THEN "panic" ELSE "err"
                        /\ UNCHANGED <<disk, trace, mlinks, mrows>>
    /\ UNCHANGED <<mode, sessFile, bpc>>
    /\ MainFrame

NextMain ==
    \/ main_start
    \/ build
    \/ restore
    \/ login_form
    \/ login_title
    \/ login_relay
    \/ load_key_page
    \/ main_built
    \/ main_recordings
    \/ main_video
    \/ main_captions

SpecMain == InitMain /\ [][NextMain]_vars

(***************************************************************************)
(* The cookie store behind its mutex: persist (client.rs 105-109) and the  *)
(* requests the client sends with the store as its cookie provider         *)
(* (client.rs 67-70), each of which reads the store before it is sent and  *)
(* writes the cookies of its response to it.                               *)
(***************************************************************************)
\* Bound: the requests in flight beside persist.
MaxRequests == 2

Holder(kind, id) == [kind |-> kind, id |-> id]
LockFree == Holder("free", 0)


\* A Session that build has returned, in mode New.
BuiltSession ==
    /\ mode = "New"
    /\ sessFile = NoSessFile
    /\ bpc = "ok"
    /\ cookie_jar = {"SimpleSAML", "MoodleSession"}
    /\ session_key = Some("k1")
    /\ requests = LoginFlow
    /\ checked = "none"
    /\ loginEntered = TRUE
    /\ buildErr = ""
    /\ calls = <<"login", "load_key">>
    /\ checkResp = NoCheckResp
    /\ postResp = PostResponse("ok", Some("Sende Nachricht"), None, TRUE, TRUE)

InitLock ==
    /\ CountIdle
    /\ CueIdle
    /\ BatchIdle
    /\ RestIdle
    /\ BuiltSession
    /\ mpc = "idle"
    /\ disk = Disk(TRUE, FALSE, <<>>)
    /\ trace = <<>>
    /\ mlinks = <<>>
    /\ mrows = <<>>
    /\ lock = LockFree
    /\ ppc = "call"
    /\ rq \in {[k \in 1..n |-> "new"] : n \in 0..MaxRequests}

LockFrame == UNCHANGED <<restVars, countVars, cueVars, batchVars, mode, sessFile, bpc,
                         session_key, requests, checked, loginEntered, buildErr, calls,
                         checkResp, postResp, mpc, trace, mlinks, mrows>>

\* persist: self.cookie_jar.lock().unwrap(), then the store is written to
\* the file through the BufWriter, with the guard alive.
persist_lock ==
    /\ ppc = "call"
    /\ lock.kind # "held"
    /\ IF lock.kind = "poisoned"
       THEN ppc' = "panic" /\ UNCHANGED lock
       ELSE ppc' = "writing" /\ lock' = Holder("held", 0)
    /\ UNCHANGED <<rq, cookie_jar, disk>>
    /\ LockFrame

\* persist: the write to the file has ended; with an error the unwrap
\* panics and the guard is dropped in the unwinding, which poisons the
\* mutex; otherwise persist returns and the guard is dropped.
persist_saved ==
    /\ ppc = "writing"
    /\ \E saved \in BOOLEAN :
          IF saved
          THEN /\ disk' = [disk EXCEPT !.docs = Append(@, cookie_jar)]
               /\ ppc' = "done"
               /\ lock' = LockFree
          ELSE /\ ppc' = "panic"
               /\ lock' = Holder("poisoned", 0)
               /\ UNCHANGED disk
    /\ UNCHANGED <<rq, cookie_jar>>
    /\ LockFrame

\* A request is built: the cookie provider locks the store to read the
\* cookies of the request.
request_lock(k) ==
    /\ rq[k] = "new"
    /\ lock.kind # "held"
    /\ IF lock.kind = "poisoned"
       THEN rq' = [rq EXCEPT ![k] = "panic"] /\ UNCHANGED lock
       ELSE rq' = [rq EXCEPT ![k] = "reading"] /\ lock' = Holder("held", k)
    /\ UNCHANGED <<ppc, cookie_jar, disk>>
    /\ LockFrame

\* The cookies are read and the guard dropped; the request is sent.
request_send(k) ==
    /\ rq[k] = "reading"
    /\ rq' = [rq EXCEPT ![k] = "waiting"]
    /\ lock' = LockFree
    /\ UNCHANGED <<ppc, cookie_jar, disk>>
    /\ LockFrame

\* A plausible bug: the cookies of the response are written to the store
\* as the response arrives, without the lock.
request_response_unlocked(k) ==
    /\ rq[k] = "waiting"
    /\ \E headers \in SetCookies : cookie_jar' = set_cookies(cookie_jar, headers)
    /\ rq' = [rq EXCEPT ![k] = "done"]
    /\ UNCHANGED <<lock, ppc, disk>>
    /\ LockFrame

\* The response has arrived (or the request failed): the cookie provider
\* locks the store to write the cookies the response sets.
request_response(k) ==
    /\ rq[k] = "waiting"
    /\ \E net \in {"ok", "fail"} :
          IF net = "fail"
          THEN rq' = [rq EXCEPT ![k] = "done"] /\ UNCHANGED lock
          ELSE /\ lock.kind # "held"
               /\ IF lock.kind = "poisoned"
                  THEN rq' = [rq EXCEPT ![k] = "panic"] /\ UNCHANGED lock
                  ELSE rq' = [rq EXCEPT ![k] = "storing"] /\ lock' = Holder("held", k)
    /\ UNCHANGED <<ppc, cookie_jar, disk>>
    /\ LockFrame

\* The cookies of the response are stored and the guard dropped.
request_stored(k) ==
    /\ rq[k] = "storing"
    /\ \E headers \in SetCookies : cookie_jar' = set_cookies(cookie_jar, headers)
    /\ rq' = [rq EXCEPT ![k] = "done"]
    /\ lock' = LockFree
    /\ UNCHANGED <<ppc, disk>>
    /\ LockFrame

NextLock ==
    \/ persist_lock
    \/ persist_saved
    \/ \E k \in 1..Len(rq) : request_lock(k)
    \/ \E k \in 1..Len(rq) : request_send(k)
    \/ \E k \in 1..Len(rq) : request_response(k)
    \/ \E k \in 1..Len(rq) : request_stored(k)

SpecLock == InitLock /\ [][NextLock]_vars

(***************************************************************************)
(* Claims about the Resource Locator (SpecLocate, SpecConfig).             *)
(***************************************************************************)
\* The stream get_video_url considers: the first one with the role
\* "mainAudio", as a set of at most one index into streams.
AudioStream(cfg) ==
    IF ~cfg.streams.isArray THEN {}
    ELSE {k \in 1..Len(cfg.streams.items) :
            /\ cfg.streams.items[k].role = "mainAudio"
            /\ \A j \in 1..(k - 1) : cfg.streams.items[j].role # "mainAudio"}

\* The variants of a stream that have a source, a width and a height.
Usable(stream) ==
    IF ~stream.mp4.isArray THEN {}
    ELSE {v \in Range(stream.mp4.items) : v.src # None /\ v.w # None /\ v.h # None}

Area(v) == v.w[1] * v.h[1]

\* C21: get_video_url returns a source only of the stream with the role
\* "mainAudio", and it is the source of a variant of that stream whose area
\* w * h no variant of the stream (with a source and an area) is strictly
\* below; it returns None exactly when there is no streams list, no stream
\* with the role, no variant list in it, or no usable variant in it.
C21_SmallestAreaOfAudioStream ==
    locPc = "located" =>
        LET cfg == locConfig.cfg
            usable == UNION {Usable(cfg.streams.items[k]) : k \in AudioStream(cfg)}
        IN  /\ video_url = None <=> usable = {}
            /\ video_url # None =>
                  \E v \in usable :
                      /\ v.src = video_url
                      /\ \A o \in usable : Area(v) <= Area(o)

\* A larger variant comes first in the mainAudio stream, a stream of another
\* role has a smaller variant still, and the smaller variant of the mainAudio
\* stream is returned.
C21_Witness ==
    /\ locPc = "located"
    /\ \E k \in AudioStream(locConfig.cfg) :
          LET st == locConfig.cfg.streams.items[k]
          IN  /\ k > 1
              /\ Cardinality(Usable(st)) = 2
              /\ Usable(st) = Range(st.mp4.items)
              /\ Area(st.mp4.items[1]) > Area(st.mp4.items[2])
              /\ Area(st.mp4.items[2]) > Area(SlideStream.mp4.items[1])
              /\ video_url = st.mp4.items[2].src

\* The tracks of the config that qualify: format "vtt" and the language
\* tag "de", by their position in captions.
Qualifying(cfg) ==
    IF ~cfg.captions.isArray THEN {}
    ELSE {i \in 1..Len(cfg.captions.items) :
            cfg.captions.items[i].format = "vtt" /\ cfg.captions.items[i].lang = "de"}

\* C22: get_caption_url selects the first entry of captions, in list order,
\* that has the format "vtt" and the language tag "de", and returns its url;
\* when no entry qualifies it returns None, and get_transcript then returns
\* no error of its own for that but goes on to the media stream: recognition
\* when get_video_url selects one.
C22_FirstQualifyingTrack ==
    locPc = "located" =>
        LET cfg == locConfig.cfg
        IN  /\ \A i \in Qualifying(cfg) :
                  (\A j \in Qualifying(cfg) : i <= j) =>
                      caption_url = cfg.captions.items[i].url
            /\ Qualifying(cfg) = {} =>
                  /\ caption_url = None
                  /\ resolveBy = IF video_url # None THEN "whisper" ELSE "fail"
            /\ resolveBy = "captions" <=> caption_url # None

\* The first track has a url but does not qualify; the second one is the
\* first that qualifies, and its url is returned.
C22_Witness ==
    /\ locPc = "located"
    /\ Qualifying(locConfig.cfg) = {2}
    /\ locConfig.cfg.captions.items[1].url # None
    /\ caption_url = locConfig.cfg.captions.items[2].url
    /\ caption_url # None
    /\ resolveBy = "captions"

\* The stage of get_video_config at which a page fails: the request, the
\* status, the script node, the setter at the start of the text (the text
\* still begins with the comment wrapper when only one half of the wrapper
\* is there), the JSON after it (which still ends with the wrapper's end
\* when only that half is there).
FailedStage(page) ==
    CASE page.net \in {"fail", "hang"} -> "send"
      [] page.net = "status" -> "status"
      [] page.net = "ok" /\ ~page.script -> "script"
      [] page.net = "ok" /\ page.script
            /\ (~page.setter \/ (page.cdataPrefix /\ ~page.cdataSuffix)) -> "setter"
      [] page.net = "ok" /\ page.script /\ page.setter
            /\ ~(page.cdataPrefix /\ ~page.cdataSuffix)
            /\ (~page.json \/ (page.cdataSuffix /\ ~page.cdataPrefix)) -> "json"
      [] OTHER -> "none"

\* C24: get_video_config returns an error exactly when a stage fails; the
\* errors of the script node, the setter and the JSON parse name their stage,
\* and no page failing at another stage gives the same error.
C24_ErrorNamesStage ==
    locPc \in {"config", "err"} =>
        /\ locConfig.tag = "Err" <=> FailedStage(locPage) # "none"
        /\ FailedStage(locPage) = "script" =>
              locConfig.err = "Could not find video config script tag on video playback site"
        /\ FailedStage(locPage) = "setter" =>
              locConfig.err = "Failed to remove global setter from video config script"
        /\ FailedStage(locPage) = "json" =>
              locConfig.err = "Failed to parse config json from video config script"
        /\ \A q \in LocPages :
              (get_video_config(q).tag = "Err" /\ locConfig.tag = "Err"
                  /\ FailedStage(q) # FailedStage(locPage))
              => get_video_config(q).err # locConfig.err

\* The script node is there and starts with the setter, and what follows
\* does not parse: the error of the JSON parse is returned.
C24_Witness ==
    /\ locPc = "err"
    /\ locPage.script /\ locPage.setter /\ ~locPage.json
    /\ locPage.cdataPrefix /\ locPage.cdataSuffix
    /\ locConfig.err = "Failed to parse config json from video config script"

(***************************************************************************)
(* Claims about the cache directory (SpecCache).                           *)
(***************************************************************************)
\* C25: in every interleaving, the bytes a unit hands to the recognizer are
\* the bytes the same unit downloaded from its own stream URL, also when
\* the stream URLs of two units end in the same path segment.
C25_UnitsHearTheirOwnMedia ==
    \A u \in DOMAIN wpc :
        wpc[u] = "done" => heard[u] = MediaBytes(unit_url[u])

(***************************************************************************)
(* Claims about the Session Manager (SpecBuild).                           *)
(***************************************************************************)
\* C10: in mode Restore the first request is the liveness check, made with
\* the deserialized cookie store; judged live, login is never entered and
\* the only other request is the token refresh; judged dead, the login
\* flow is entered next; in mode New login is entered at once; a login that
\* succeeds ends with token extraction; login is entered only in mode New
\* or after the session was judged dead.
C10_LoginOnlyWithoutLiveSession ==
    /\ (mode = "Restore" /\ requests # <<>>) => requests[1] = GetHome
    /\ bpc = "check" => (cookie_jar = sessFile.cookies /\ checked = "none")
    /\ (mode = "Restore" /\ checked = "none") => ~loginEntered /\ Len(requests) <= 1
    /\ checked = "live" =>
          /\ ~loginEntered
          /\ requests = <<GetHome, GetHome>>
          /\ bpc \in {"load_key", "ok", "err"}
    /\ checked = "dead" =>
          /\ loginEntered
          /\ Len(requests) >= 2
          /\ requests[2] = GetEntry
    /\ (mode = "New" /\ bpc # "start") => (loginEntered /\ requests[1] = GetEntry)
    /\ loginEntered => (mode = "New" \/ checked = "dead")
    /\ (loginEntered /\ bpc = "ok") =>
          /\ session_key # None
          /\ SubSeq(requests, Len(requests) - 3, Len(requests))
                = <<GetEntry, PostCredentials, PostRelay, GetHome>>
    /\ (bpc = "ok" /\ ~loginEntered) => (checked = "live" /\ session_key # None)

\* C10 witness: a restored session was judged dead, the login flow ran and
\* the token was extracted.
C10_Witness ==
    /\ mode = "Restore"
    /\ checked = "dead"
    /\ loginEntered
    /\ bpc = "ok"
    /\ session_key # None

\* C11 (as claimed): once a response to the request of check() has arrived,
\* the session is judged live when its final URL is the landing URL and
\* judged dead, with login entered, for every other final URL, whatever the
\* response is otherwise (its status, its page).
C11_FinalUrlSoleSignal ==
    checkResp.net \in {"ok", "status"} =>
        IF checkResp.url = HomeUrl
        THEN checked = "live"
        ELSE checked = "dead" /\ loginEntered

\* C11 (amended): for a response with a success status the final URL alone
\* decides: live when it is the landing URL, whatever page it carries, and
\* dead with login entered next for every other final URL; a transport
\* failure or an error status gives no judgement: check returns an error and
\* the attempt ends without login.
C11_FinalUrlDecidesSuccessResponse ==
    /\ checkResp.net = "none" => checked = "none"
    /\ checkResp.net = "ok" =>
          /\ checked = (IF checkResp.url = HomeUrl THEN "live" ELSE "dead")
          /\ checked = "live" => (~loginEntered /\ calls[2] = "load_key")
          /\ checked = "dead" => (loginEntered /\ calls[2] = "login")
    /\ checkResp.net \in {"fail", "status"} =>
          /\ checked = "none"
          /\ bpc = "err"
          /\ buildErr = "Failed to send request to home page"
          /\ calls = <<"check">>

\* C11 witness: a response with a success status that carries the dashboard
\* but ended on another URL was judged dead and login was entered.
C11_Witness ==
    /\ checkResp = CheckResponse("ok", OtherUrl, "dashboard")
    /\ checked = "dead"
    /\ calls = <<"check", "login">>

\* C12: a build that succeeded holds a Session whose token is present and
\* was read by token extraction, the last step of the attempt, entered
\* after the login flow ran through its relay POST or after the liveness
\* check judged the session live; in every other state of the attempt (in
\* progress or failed) the token is absent and no Session has been returned.
C12_ReturnedSessionAuthenticated ==
    /\ bpc = "ok" =>
          /\ session_key # None
          /\ session_key[1] \in SessKeys
          /\ calls[Len(calls)] = "load_key"
          /\ requests[Len(requests)] = GetHome
          /\ IF loginEntered
             THEN requests[Len(requests) - 1] = PostRelay
             ELSE checked = "live" /\ checkResp.url = HomeUrl
    /\ bpc # "ok" => session_key = None

\* C12 witness: a fresh build succeeded and the token is there.
C12_Witness ==
    /\ mode = "New"
    /\ bpc = "ok"
    /\ session_key = Some("k1")

\* C14: a build attempt ends with a Session or with an error value; no
\* failure ends it with a panic.
C14_FailuresAreErrors ==
    /\ bpc # "panic"
    /\ bpc = "err" => buildErr # ""

\* The number of elements of seq that equal x.
Count(x, seq) == Cardinality({i \in 1..Len(seq) : seq[i] = x})

IsPrefix(s, t) == Len(s) <= Len(t) /\ s = SubSeq(t, 1, Len(s))

\* C15: in one build attempt each method of the Session is entered at most
\* once and each request of the login flow and of token extraction is sent
\* at most once, in the order of the flow; after a step has failed nothing
\* more happens.
C15_NoRetry ==
    /\ \A c \in {"check", "login", "load_key"} : Count(c, calls) <= 1
    /\ \A r \in {GetEntry, PostCredentials, PostRelay} : Count(r, requests) <= 1
    /\ Count(GetHome, requests) = Count("check", calls) + Count("load_key", calls)
    /\ IF mode = "New" THEN IsPrefix(requests, LoginFlow)
       ELSE \/ IsPrefix(requests, <<GetHome>> \o LoginFlow)
            \/ IsPrefix(requests, <<GetHome, GetHome>>)
    /\ buildErr # "" => (bpc = "err" /\ ~ENABLED NextBuild)

\* C15 witness: a restored session was judged dead, the login flow failed
\* at the answer to the credential POST and the attempt ended there.
C15_Witness ==
    /\ bpc = "err"
    /\ requests = <<GetHome, GetEntry, PostCredentials>>
    /\ calls = <<"check", "login">>

\* C16: once the answer to the credential POST has arrived with a title,
\* the title decides: "TU Wien Login" ends login with an error, the content
\* of the inline message element when the page has one, and no relay POST
\* is sent; any title other than "TU Wien Login" and "Sende Nachricht" ends
\* login with the unexpected-title error and no relay POST, whatever else
\* the page holds; a relay POST is sent only after "Sende Nachricht".
C16_TitleDecides ==
    /\ PostRelay \in Range(requests) => postResp.title = Some("Sende Nachricht")
    /\ (postResp.net = "ok" /\ postResp.title # None) =>
          CASE postResp.title[1] = "TU Wien Login" ->
                 /\ bpc = "err"
                 /\ PostRelay \notin Range(requests)
                 /\ buildErr = IF postResp.message # None THEN postResp.message[1]
                               ELSE "Failed to find error message in login form response"
            [] postResp.title[1] = "Sende Nachricht" ->
                 /\ buildErr \notin {"Unexpected login form response title", WrongPassword}
                 /\ (postResp.form /\ postResp.action) => PostRelay \in Range(requests)
            [] OTHER ->
                 /\ bpc = "err"
                 /\ PostRelay \notin Range(requests)
                 /\ buildErr = "Unexpected login form response title"

\* C16 witness: the credential POST was answered with the login page again
\* and login failed with the content of its message element.
C16_Witness ==
    /\ postResp.title = Some("TU Wien Login")
    /\ postResp.message = Some(WrongPassword)
    /\ bpc = "err"
    /\ buildErr = WrongPassword
    /\ requests[Len(requests)] = PostCredentials

(***************************************************************************)
(* Claims about main (SpecMain).                                           *)
(***************************************************************************)
\* C13: in a run the first thing after a successful build is a call of
\* persist, before any request of the pipeline; a second call of persist
\* follows only when the loop over the recordings has ended, after every
\* request of the pipeline; a run that ends Ok has made exactly these two
\* calls, in this order, and the session file holds what both wrote.
C13_PersistAroundPipeline ==
    /\ mpc \in {"start", "build"} => trace = <<>>
    /\ trace # <<>> => (trace[1] = "persist" /\ bpc = "ok" /\ session_key # None)
    /\ mpc \in {"recordings", "video", "captions", "done"} =>
          (trace # <<>> /\ Len(disk.docs) >= 1)
    /\ \A i \in 2..Len(trace) :
          trace[i] = "persist" =>
              /\ i = Len(trace)
              /\ i >= 3
              /\ mlinks = <<>>
              /\ mpc \in {"done", "err", "panic"}
    /\ mpc = "done" =>
          /\ Count("persist", trace) = 2
          /\ trace[Len(trace)] = "persist"
          /\ Len(disk.docs) = 2

\* C13 witness: a run ended Ok with a row: persist, the three requests of
\* the pipeline for one recording, persist.
C13_Witness ==
    /\ mpc = "done"
    /\ Len(mrows) = 1
    /\ trace = <<"persist", "GET recordings", "GET video", "GET captions", "persist">>

\* C26: when main has ended, the session file holds exactly one serialized
\* cookie store, the store as it was at the last persist, and load_json
\* reads that store from it (stated for the runs that logged in, whose
\* store holds the cookies of the login).
C26_FileHoldsFinalStoreOnly ==
    (mpc = "done" /\ loginEntered) =>
        /\ disk.docs = <<cookie_jar>>
        /\ load_json(disk) = [valid |-> TRUE, cookies |-> cookie_jar]

(***************************************************************************)
(* Claims about the cookie store's lock (SpecLock).                        *)
(***************************************************************************)
\* C19: whoever holds the lock of the cookie store is reading or writing the
\* store and is not waiting for a network call or a file write to end.
C19_LockNotHeldAcrossIO ==
    lock.kind = "held" =>
        IF lock.id = 0
        THEN ppc # "writing"
        ELSE rq[lock.id] # "waiting"

\* C23 as stated: once build has returned the Session, neither persist nor
\* any request of a unit changes the contents of the cookie store.
C23_UnitsOnlyReadTheStore == [][cookie_jar' = cookie_jar]_vars

\* C23 as amended: the store changes only when the cookies of a response
\* are stored, by the request that holds the lock for it; persist, the
\* reading of the cookies for a request and a failed request leave it as
\* it is.
C23_OnlyResponsesChangeTheStore ==
    [][cookie_jar' # cookie_jar =>
          \E k \in DOMAIN rq :
              /\ rq[k] = "storing" /\ rq'[k] = "done"
              /\ lock = Holder("held", k)]_vars

\* The request of a unit has ended and its response has put a cookie into
\* the store that build had not left there.
C23_Witness ==
    /\ "MOODLEID1_" \in cookie_jar
    /\ \E k \in DOMAIN rq : rq[k] = "done"

(***************************************************************************)
(* Claims about the Fan-out Coordinator and the Transcript Resolver        *)
(* (SpecBatch).                                                            *)
(***************************************************************************)
\* The rows of the results that are Ok, in the order of the results.
RECURSIVE OkRows(_)
OkRows(rs) ==
    IF rs = <<>> THEN <<>>
    ELSE IF Head(rs).tag = "Ok" THEN <<Head(rs).row>> \o OkRows(Tail(rs))
    ELSE OkRows(Tail(rs))

\* What the pipeline of one recording gives when it runs alone: the config,
\* the title, the captions path, the fallback, the counts.
AloneResult(link) ==
    LET rec == site[link]
        r == get_video_config(rec.page)
        cap == IF get_caption_url(r.cfg) # None THEN get_opencast_transcript(rec.caption)
               ELSE Err("Could not find a caption url")
    IN  IF r.tag = "Err" THEN RowErr(r.err)
        ELSE IF r.cfg.title = None THEN RowErr("Could not find title in video metadata")
        ELSE IF cap.tag = "Ok" THEN make_row(r.cfg.title[1], link, cap.text)
        ELSE IF cap.tag = "Panic" THEN RowPanic(cap.err)
        ELSE IF get_video_url(r.cfg) = None THEN RowErr("Could not find a video url")
        ELSE IF rec.media.net # "ok" THEN RowErr("transport")
        ELSE IF rec.media.stt = "ok" THEN make_row(r.cfg.title[1], link, rec.media.said)
        ELSE IF rec.media.stt = "err" THEN RowErr("recognition")
        ELSE RowPanic("failed to get segment")

Enumerated == get_video_links(course).tag = "Ok"

\* C1: once the links are enumerated, do_stuff returns Ok whatever units
\* fail, with exactly one row for each unit that did not fail, in dispatch
\* order, each row being what that recording gives when it runs alone.
C1_BatchIsolation ==
    (dpc = "done" /\ Enumerated) =>
        /\ ret.tag = "Ok"
        /\ data = OkRows([i \in 1..Len(links) |-> AloneResult(links[i])])

\* C2: do_stuff returns an error only when the enumeration of the
\* recordings failed.
C2_OnlyEnumerationFails ==
    (dpc = "done" /\ ret.tag = "Err") => ~Enumerated

\* C3: the rows pushed so far are the rows of the units awaited so far that
\* ended Ok, in dispatch order, whatever the order of completion; when
\* do_stuff returns Ok every handle has been awaited.
C3_DispatchOrder ==
    dpc \in {"drain", "done"} =>
        /\ data = OkRows([i \in 1..Len(drained) |-> ures[i]])
        /\ (ret.tag = "Ok" => Len(drained) = Len(links))

\* C3 witness: do_stuff returned at least two rows and dropped a failed
\* unit, and a unit had completed before an earlier one.
C3_Witness ==
    /\ dpc = "done"
    /\ ret.tag = "Ok"
    /\ outOfOrder
    /\ Len(data) >= 2
    /\ Len(data) < Len(links)

\* The config of unit u, once get_transcript has been entered.
Resolving(u) ==
    /\ upc[u] # "config"
    /\ get_video_config(site[links[u]].page).tag = "Ok"
    /\ site[links[u]].page.config.title # None

\* C4: with no caption track selected, recognition is attempted when a
\* stream is selected; with neither, resolution ends with the error "Could
\* not find a video url" and recognition is never started.
C4_FallbackPolicy ==
    \A u \in 1..Len(links) :
        (Resolving(u) /\ get_caption_url(site[links[u]].page.config) = None) =>
            IF get_video_url(site[links[u]].page.config) # None
            THEN /\ recog[u] = 1
                 /\ upc[u] \in {"video", "stt", "done"}
                 /\ ures[u].err # "Could not find a video url"
            ELSE /\ recog[u] = 0
                 /\ upc[u] = "done"
                 /\ ures[u] = RowErr("Could not find a video url")

\* C4 witness: one unit without a caption track went through recognition
\* to a row, another without track and stream ended with the error.
C4_Witness ==
    \E u, v \in 1..Len(links) :
        /\ Resolving(u) /\ Resolving(v)
        /\ get_caption_url(site[links[u]].page.config) = None
        /\ get_caption_url(site[links[v]].page.config) = None
        /\ capTries[u] = 0 /\ recog[u] = 1 /\ ures[u].tag = "Ok"
        /\ capTries[v] = 0 /\ recog[v] = 0 /\ ures[v].tag = "Err"

\* C5: a caption file that parses and holds no cue (no block at all, or
\* only blocks that are not cues) makes the captions path end with an
\* error value, after which the resolver falls back as for a parse error:
\* recognition when a stream is selected, the error otherwise.
C5_ZeroCuesFallBack ==
    \A u \in 1..Len(links) :
        (/\ Resolving(u)
         /\ upc[u] # "captions"
         /\ capTries[u] = 1
         /\ site[links[u]].caption.parsed
         /\ cue_texts(site[links[u]].caption.blocks) = <<>>) =>
            /\ capRes[u].tag = "Err"
            /\ ures[u].tag # "Panic"
            /\ recog[u] = IF get_video_url(site[links[u]].page.config) # None THEN 1 ELSE 0

\* C17: for every recording the captions path is entered at most once and
\* recognition at most once; recognition is entered only after the captions
\* path gave an error (no track selected, or the one attempt failed); a
\* transcript from the captions path ends resolution with that transcript
\* and without recognition; after recognition was entered the unit ends
\* with the recognized text, or with the failure of the download or of
\* recognition, and the captions path is not entered again.
C17_ResolverNoRetry ==
    \A u \in 1..Len(links) :
        LET rec == site[links[u]]
        IN  /\ capTries[u] <= 1
            /\ recog[u] <= 1
            /\ upc[u] = "captions" => (capTries[u] = 1 /\ recog[u] = 0)
            /\ upc[u] \in {"video", "stt"} => recog[u] = 1
            /\ recog[u] = 1 =>
                  /\ capRes[u].tag = "Err"
                  /\ capTries[u] = (IF get_caption_url(rec.page.config) # None THEN 1 ELSE 0)
            /\ capRes[u].tag = "Ok" =>
                  /\ recog[u] = 0
                  /\ upc[u] = "done"
                  /\ ures[u].tag = "Ok"
                  /\ ures[u].row.transcript = capRes[u].text
            /\ (recog[u] = 1 /\ upc[u] = "done") =>
                  IF rec.media.net # "ok" THEN ures[u] = RowErr("transport")
                  ELSE IF rec.media.stt = "ok"
                       THEN ures[u].tag = "Ok" /\ ures[u].row.transcript = rec.media.said
                       ELSE ures[u].tag \in {"Err", "Panic"}

\* C17 witness: a unit whose caption file did not parse went on to
\* recognition once, the download failed and the unit ended with that error.
C17_Witness ==
    \E u \in 1..Len(links) :
        /\ capTries[u] = 1
        /\ capRes[u] = Err("Failed to parse vtt from caption file")
        /\ recog[u] = 1
        /\ upc[u] = "done"
        /\ ures[u] = RowErr("transport")

\* C18: while do_stuff waits for its units, a unit whose config page or
\* caption file arrives finds a worker thread to take its next step on,
\* whatever number of other units are in recognition.
C18_RecognitionDoesNotStall ==
    \A u \in 1..Len(links) :
        (dpc = "drain" /\ upc[u] \in {"config", "captions"}) =>
            (Returns(site[links[u]].page.net) => Runnable(u))

\* C20: do_stuff does not wait for ever for a unit whose request is left
\* without answer: the request ends with a transport error.  So, as long as
\* do_stuff has not returned, the handle it awaits is complete or one of
\* the units can take its next step.
C20_HungCallTimesOut ==
    dpc = "drain" =>
        \/ upc[handle_to_await] = "done"
        \/ \E u \in 1..Len(links) : Runnable(u)

(***************************************************************************)
(* Claims about the cue reduction (SpecCues).                              *)
(***************************************************************************)
\* The first element of every maximal run of equal elements, in order.
RunHeads(t) ==
    LET idx == {i \in 1..Len(t) : i = 1 \/ t[i] # t[i - 1]}
        nth(k) == CHOOSE i \in idx : Cardinality({j \in idx : j < i}) = k - 1
    IN  [k \in 1..Cardinality(idx) |-> t[nth(k)]]

\* C6: for every non-empty sequence of cue texts the reduced sequence holds
\* exactly one copy of each maximal run of cues that are equal after
\* trimming, in the original order: no two neighbours are equal, the first
\* element is the first cue, a cue repeated after another cue is kept again;
\* the transcript is the reduced sequence joined by single spaces; reducing
\* the reduced sequence changes nothing; and the cues "Das ist trivial.",
\* "Das ist trivial.", "Ergibt das Sinn?" give the transcript
\* "Das ist trivial. Ergibt das Sinn?".
C6_CueReduction ==
    (rphase \in {"reduced", "again"} /\ raw # <<>>) =>
        LET t == [i \in 1..Len(raw) |-> Trim(raw[i])]
        IN  /\ cueOut.tag = "Ok"
            /\ reduced = RunHeads(t)
            /\ \A i \in 1..(Len(reduced) - 1) : reduced[i] # reduced[i + 1]
            /\ reduced[1] = t[1]
            /\ cueOut.text = JoinSp(reduced)
            /\ (raw = <<T_trivial, T_trivial, T_sinn>> => cueOut.text = T_example)
            /\ (rphase = "again" => reapplied = reduced)

\* C6 witness: the example cues were reduced to the example transcript and
\* the reduction was applied again.
C6_Witness ==
    /\ rphase = "again"
    /\ raw = <<T_trivial, T_trivial, T_sinn>>
    /\ reduced = <<T_trivial, T_sinn>>
    /\ cueOut.text = T_example

(***************************************************************************)
(* Claims about the Pattern Counter (SpecCount).                           *)
(***************************************************************************)
\* The positions of s where the phrase of pattern p starts, compared
\* case-insensitively, whatever is around it.
Occurrences(p, s) == {i \in 1..Len(s) : match_at(PhraseRe[p], 1, s, i) # 0}

LetterBefore(s, i) == i > 1 /\ IsLetter(s[i - 1])
LetterAfter(p, s, i) ==
    LET e == match_at(PhraseRe[p], 1, s, i) IN e <= Len(s) /\ IsLetter(s[e])

\* The occurrences that are not part of a larger word.
WordOccurrences(p, s) ==
    {i \in Occurrences(p, s) : ~LetterBefore(s, i) /\ ~LetterAfter(p, s, i)}

\* C7: the count of each pattern is the same for a transcript and for the
\* transcript with whitespace or punctuation added before its start and
\* after its end.
C7_PaddingInvariant ==
    cphase = "padded" => padCnt = cnt

\* C8: the count of a pattern is zero when every occurrence of its phrase
\* has a letter (ASCII or umlaut) immediately before or immediately after it.
C8_ZeroInsideWord ==
    cphase \in {"counted", "padded"} =>
        \A p \in 1..3 :
            (\A i \in Occurrences(p, text) : LetterBefore(text, i) \/ LetterAfter(p, text, i))
                => cnt[p] = 0

\* C9: the count of each pattern is the number of occurrences of its phrase
\* that are not part of a larger word, each counted once.
C9_CountsEveryWordOccurrence ==
    /\ cphase \in {"counted", "padded"} =>
          \A p \in 1..3 : cnt[p] = Cardinality(WordOccurrences(p, text))
    /\ cphase = "padded" =>
          \A p \in 1..3 : padCnt[p] = Cardinality(WordOccurrences(p, padText))

====
